---------------------------- MODULE Spec2Model ----------------------------
(***************************************************************************)
(* Content-addressed translation cache and per-chunk translation           *)
(* orchestrator of translate-dir-lib (trans_lib).                          *)
(*                                                                         *)
(* Texts are finite sequences of one-character strings, so that the        *)
(* string functions of the code (strip, newline translation, tag           *)
(* extraction) are computed rather than assumed.  The empty string of the  *)
(* code is the empty sequence << >>.                                       *)
(***************************************************************************)
EXTENDS Integers, Sequences, FiniteSets, TLC

VARIABLES
    path_map,         \* path_map.csv: sequence of [path_checksum, relative_path]
    correspondence,   \* correspondence.csv: [exists, fields, data_list]
    blobs,            \* chunk files <cache>/<lang>/<path_hash>/<name>
    last_op,          \* the last completed cache operation
    ops,              \* number of operations performed so far
    lang_roles,       \* history: the sides each language was persisted on
    cfg,              \* ChunkTranslator retry configuration (after clamping)
    call_model,       \* the module-level strategies' _call_model slot
    pc,               \* position of the translate_or_fetch coroutine
    cur,              \* locals of the running translate_or_fetch call
    result,           \* outcome of the last finished translate_or_fetch call
    returned,         \* history: (meta, text) of every call that returned
    file,             \* the running file-level translation loop
    target_file,      \* the target file on disk
    fn,               \* the pure function under study: its input and its outcome
    tasks,            \* the concurrent tasks: each one's position and locals
    project           \* the Project: its ProjectConfig and the directories on disk

cache_vars == <<path_map, correspondence, blobs>>
api_vars   == <<last_op, ops, lang_roles>>
file_vars  == <<file, target_file, fn, tasks, project>>
tr_vars    == <<cfg, call_model, pc, cur, result, returned, file, target_file,
                fn, tasks, project>>
vars       == <<path_map, correspondence, blobs, last_op, ops, lang_roles,
                cfg, call_model, pc, cur, result, returned, file, target_file, fn, tasks,
                project>>

----------------------------------------------------------------------------
(* Bounds of the model *)

MaxOps == 4           \* cache operations in one run
MaxPairs == 3         \* persist_pair calls in one run of persists alone
MaxAttemptsParam == 3 \* largest overload_retry_attempts tried
MaxDelayParam == 4    \* largest delay parameter tried (seconds)

----------------------------------------------------------------------------
(* Generic helpers *)

Range(s) == {s[i] : i \in 1..Len(s)}

Min(a, b) == IF a <= b THEN a ELSE b
Max(a, b) == IF a >= b THEN a ELSE b

\* Python's None, kept apart from every text (the empty text included)
\* and from every checksum.
None == <<"<None>">>

----------------------------------------------------------------------------
(* enums.py *)

Language == {"English", "French", "German"}

PATH_CHECKSUM_COLUMN == "path_checksum"

----------------------------------------------------------------------------
(* helpers.py *)

\* hashlib.sha256(contents.encode('utf-8')).hexdigest(): collision-free,
\* never the empty string, never equal to its argument.
calculate_checksum(contents) == <<"sha256">> \o contents

\* Path.read_text(encoding="utf-8") opens the file in text mode with
\* universal newlines: "\r\n" and a lone "\r" both read as "\n".
RECURSIVE universal_newlines(_)
universal_newlines(s) ==
    IF s = << >> THEN << >>
    ELSE IF s[1] = "\r"
         THEN IF Len(s) >= 2 /\ s[2] = "\n"
              THEN <<"\n">> \o universal_newlines(SubSeq(s, 3, Len(s)))
              ELSE <<"\n">> \o universal_newlines(Tail(s))
         ELSE <<s[1]>> \o universal_newlines(Tail(s))

read_string_from_file(path) == universal_newlines(path.contents)

\* A relative path is a sequence of tokens: names, "." and the separators
\* "/" and "\\".
RECURSIVE posix_separators(_)
posix_separators(p) ==
    IF p = << >> THEN << >>
    ELSE <<IF p[1] = "\\" THEN "/" ELSE p[1]>> \o posix_separators(Tail(p))

RECURSIVE strip_current_dir(_)
strip_current_dir(p) ==
    IF Len(p) >= 2 /\ p[1] = "." /\ p[2] = "/"
    THEN strip_current_dir(SubSeq(p, 3, Len(p)))
    ELSE p

RECURSIVE strip_trailing_separator(_)
strip_trailing_separator(p) ==
    IF Len(p) >= 2 /\ p[Len(p)] = "/"
    THEN strip_trailing_separator(SubSeq(p, 1, Len(p) - 1))
    ELSE p

normalize_relative_path(relative_path) ==
    strip_trailing_separator(strip_current_dir(posix_separators(relative_path)))

\* SHA-256 of the normalized path.  The digest has a fixed width, so paths
\* with one checksum exist: COLLIDING_PATH stands for a path whose checksum
\* is that of "a.md"; on all other paths the checksum is injective.
COLLIDING_PATH == <<"a2.md">>

calculate_path_checksum(normalized) ==
    <<"sha256">> \o (IF normalized = COLLIDING_PATH THEN <<"a.md">> ELSE normalized)

----------------------------------------------------------------------------
(* translation_cache/cache_backend.py *)

\* A row's cell; a missing key reads as the empty string (row.get(f, "")).
cell(row, f) == IF f \in DOMAIN row THEN row[f] ELSE << >>

ensure_path_field(fieldnames) ==
    IF PATH_CHECKSUM_COLUMN \in Range(fieldnames)
    THEN fieldnames
    ELSE <<PATH_CHECKSUM_COLUMN>> \o fieldnames

\* register_path_hash raises ValueError: the first row of the path's
\* checksum names another, non-empty path.
path_hash_collision(pm, relative_path) ==
    LET normalized == normalize_relative_path(relative_path)
        path_hash  == calculate_path_checksum(normalized)
    IN  \E i \in 1..Len(pm) :
            /\ pm[i].path_checksum = path_hash
            /\ \A j \in 1..(i - 1) : pm[j].path_checksum # path_hash
            /\ pm[i].relative_path # << >>
            /\ pm[i].relative_path # normalized

register_path_hash_appending(pm, relative_path) ==
    Append(pm, [path_checksum |-> calculate_path_checksum(normalize_relative_path(relative_path)),
                relative_path |-> normalize_relative_path(relative_path)])

\* register_path_hash: the path map after the call, whether it returned or
\* raised (it raises before it writes).
register_path_hash(pm, relative_path) ==
    LET normalized == normalize_relative_path(relative_path)
        path_hash  == calculate_path_checksum(normalized)
    IN  IF \E i \in 1..Len(pm) : pm[i].path_checksum = path_hash
        THEN pm
        ELSE Append(pm, [path_checksum |-> path_hash, relative_path |-> normalized])

path_hash_of(relative_path) ==
    calculate_path_checksum(normalize_relative_path(relative_path))

blob_file(bl, lang, path_hash, name) ==
    {f \in bl : f.lang = lang /\ f.path_hash = path_hash /\ f.name = name}

\* Mutation of add_contents_to_cache: the existence test is dropped and the
\* file is truncated instead of written.
add_contents_truncating(bl, contents, lang, path_hash) ==
    LET checksum == calculate_checksum(contents)
    IN  (bl \ blob_file(bl, lang, path_hash, checksum))
        \cup {[lang |-> lang, path_hash |-> path_hash, name |-> checksum,
               contents |-> << >>]}

\* open(file_path, "w") writes the text as it is on a POSIX host.
add_contents_to_cache(bl, contents, lang, path_hash) ==
    LET checksum == calculate_checksum(contents)
    IN  IF blob_file(bl, lang, path_hash, checksum) # {}
        THEN bl
        ELSE bl \cup {[lang |-> lang, path_hash |-> path_hash,
                       name |-> checksum, contents |-> contents]}

read_cached_contents_by_lang(bl, checksum, lang, path_hash) ==
    LET found == blob_file(bl, lang, path_hash, checksum)
    IN  IF found = {} THEN None
        ELSE read_string_from_file(CHOOSE f \in found : TRUE)

ensure_correspondence_cache(corr) ==
    IF corr.exists THEN corr
    ELSE [exists |-> TRUE, fields |-> <<PATH_CHECKSUM_COLUMN>>, data_list |-> << >>]

\* Mutation of add_lang_to_cache_data: the new column is put in front of
\* the language columns.
add_lang_column_first(corr, lang) ==
    LET flds == ensure_path_field(corr.fields)
    IN  IF lang \in Range(flds)
        THEN [corr EXCEPT !.fields = flds]
        ELSE [corr EXCEPT
                !.fields = <<flds[1], lang>> \o Tail(flds),
                !.data_list =
                    [i \in 1..Len(corr.data_list) |->
                        [f \in DOMAIN corr.data_list[i] \cup {lang} |->
                            IF f = lang THEN << >> ELSE corr.data_list[i][f]]]]

add_lang_to_cache_data(corr, lang) ==
    LET flds == ensure_path_field(corr.fields)
    IN  IF lang \in Range(flds)
        THEN [corr EXCEPT !.fields = flds]
        ELSE [corr EXCEPT
                !.fields = Append(flds, lang),
                !.data_list =
                    [i \in 1..Len(corr.data_list) |->
                        [f \in DOMAIN corr.data_list[i] \cup {lang} |->
                            IF f = lang THEN << >> ELSE corr.data_list[i][f]]]]

\* Index of the first row a query or a write for (path_hash, lang column =
\* checksum) selects; 0 when there is none.  A row with an empty
\* path_checksum is selected for every path.
row_matches(row, lang, checksum, path_hash) ==
    /\ ~ (cell(row, PATH_CHECKSUM_COLUMN) # << >>
          /\ cell(row, PATH_CHECKSUM_COLUMN) # path_hash)
    /\ row[lang] = checksum

\* Mutation of the row search: no row ever matches.
no_match(data_list, lang, checksum, path_hash) == 0

first_match(data_list, lang, checksum, path_hash) ==
    LET hits == {i \in 1..Len(data_list) :
                    row_matches(data_list[i], lang, checksum, path_hash)}
    IN  IF hits = {} THEN 0 ELSE CHOOSE i \in hits : \A j \in hits : i <= j

\* Mutation of find_correspondent_checksum: the path_checksum column is
\* not compared.
find_correspondent_any_path(corr, src_checksum, src_lang, tgt_lang, path_hash) ==
    IF src_lang = tgt_lang \/ ~corr.exists THEN None
    ELSE IF src_lang \notin Range(corr.fields) \/ tgt_lang \notin Range(corr.fields)
    THEN None
    ELSE LET hits == {i \in 1..Len(corr.data_list) :
                         corr.data_list[i][src_lang] = src_checksum}
         IN  IF hits = {} THEN None
             ELSE LET i == CHOOSE k \in hits : \A j \in hits : k <= j
                  IN  IF corr.data_list[i][tgt_lang] = << >> THEN None
                      ELSE corr.data_list[i][tgt_lang]

find_correspondent_checksum(corr, src_checksum, src_lang, tgt_lang, path_hash) ==
    IF src_lang = tgt_lang THEN None
    ELSE IF ~corr.exists THEN None
    ELSE IF src_lang \notin Range(corr.fields) \/ tgt_lang \notin Range(corr.fields)
    THEN None
    ELSE LET i == first_match(corr.data_list, src_lang, src_checksum, path_hash)
         IN  IF i = 0 THEN None
             ELSE IF corr.data_list[i][tgt_lang] = << >> THEN None
             ELSE corr.data_list[i][tgt_lang]

\* The file the call leaves behind: a missing table is created with the
\* bare header unless the two languages are equal (early return).
correspondence_after_find(corr, src_lang, tgt_lang) ==
    IF src_lang = tgt_lang THEN corr ELSE ensure_correspondence_cache(corr)

\* Mutation of set_checksum_pair_in_correspondence_cache: the search for an
\* existing row is skipped and a row is always appended.
set_checksum_pair_always_append(corr, src_checksum, src_lang, tgt_checksum, tgt_lang, path_hash) ==
    IF src_lang = tgt_lang THEN corr
    ELSE LET c2 == add_lang_to_cache_data(add_lang_to_cache_data(corr, src_lang), tgt_lang)
             new_row == [f \in Range(c2.fields) |->
                            IF f = PATH_CHECKSUM_COLUMN THEN path_hash
                            ELSE IF f = src_lang THEN src_checksum
                            ELSE IF f = tgt_lang THEN tgt_checksum
                            ELSE << >>]
         IN  [exists |-> TRUE, fields |-> c2.fields,
              data_list |-> Append(c2.data_list, new_row)]

set_checksum_pair_in_correspondence_cache(corr, src_checksum, src_lang, tgt_checksum, tgt_lang, path_hash) ==
    IF src_lang = tgt_lang THEN corr
    ELSE LET c2 == add_lang_to_cache_data(add_lang_to_cache_data(corr, src_lang), tgt_lang)
             i  == first_match(c2.data_list, src_lang, src_checksum, path_hash)
             new_row == [f \in Range(c2.fields) |->
                            IF f = PATH_CHECKSUM_COLUMN THEN path_hash
                            ELSE IF f = src_lang THEN src_checksum
                            ELSE IF f = tgt_lang THEN tgt_checksum
                            ELSE << >>]
         IN  IF i # 0
             THEN [exists |-> TRUE, fields |-> c2.fields,
                   data_list |-> [c2.data_list EXCEPT
                                     ![i][PATH_CHECKSUM_COLUMN] = path_hash,
                                     ![i][tgt_lang] = tgt_checksum]]
             ELSE [exists |-> TRUE, fields |-> c2.fields,
                   data_list |-> Append(c2.data_list, new_row)]

\* A table read once and kept: what the caller held before.
held_correspondence_cache(on_disk, held) == held

\* read_correspondence_cache(root_path): every operation reads the table
\* from the file when it runs, whatever a caller read earlier.
read_correspondence_cache(on_disk, held) == on_disk

do_translation_correspond_to_source(corr, src_checksum, src_lang, tgt_contents, tgt_lang, path_hash) ==
    /\ tgt_lang # src_lang
    /\ find_correspondent_checksum(corr, src_checksum, src_lang, tgt_lang, path_hash)
         = calculate_checksum(tgt_contents)

----------------------------------------------------------------------------
(* translation_cache/translation_cache.py: TranslationCacheCsv *)

\* lookup: the value returned.  Its writes (path registration, creation of
\* a missing table) are cache_after_lookup.
lookup_always_misses(corr, bl, src_checksum, src_lang, tgt_lang, relative_path) ==
    None

lookup(corr, bl, src_checksum, src_lang, tgt_lang, relative_path) ==
    LET path_hash    == path_hash_of(relative_path)
        tgt_checksum == find_correspondent_checksum(corr, src_checksum, src_lang,
                                                    tgt_lang, path_hash)
    IN  IF tgt_checksum = None THEN None
        ELSE read_cached_contents_by_lang(bl, tgt_checksum, tgt_lang, path_hash)

\* Mutation of persist_pair: the target blob is not written.
persist_pair_without_target_blob(corr, bl, src_lang, tgt_lang, src_text, tgt_text, relative_path) ==
    LET path_hash == path_hash_of(relative_path)
    IN  [correspondence |->
            set_checksum_pair_in_correspondence_cache(corr,
                calculate_checksum(src_text), src_lang,
                calculate_checksum(tgt_text), tgt_lang, path_hash),
         blobs |-> add_contents_to_cache(bl, src_text, src_lang, path_hash)]

\* persist_pair ignores the two checksums it is handed and recomputes them
\* from the texts (the values add_contents_to_cache returns).
persist_pair(corr, bl, src_lang, tgt_lang, src_text, tgt_text, relative_path) ==
    LET path_hash == path_hash_of(relative_path)
        bl1 == add_contents_to_cache(bl, src_text, src_lang, path_hash)
        bl2 == add_contents_to_cache(bl1, tgt_text, tgt_lang, path_hash)
    IN  [correspondence |->
            set_checksum_pair_in_correspondence_cache(corr,
                calculate_checksum(src_text), src_lang,
                calculate_checksum(tgt_text), tgt_lang, path_hash),
         blobs |-> bl2]

----------------------------------------------------------------------------
(* diff.py and TranslationCacheCsv.get_best_pair_example_from_cache *)

\* SequenceMatcher.find_longest_match over the whole of a and b: the
\* longest block a[i..i+size-1] = b[j..j+size-1]; of the longest blocks
\* the one that starts earliest in a and, of those, earliest in b.
is_block(a, b, i, j, size) ==
    /\ i + size - 1 <= Len(a)
    /\ j + size - 1 <= Len(b)
    /\ \A k \in 0..(size - 1) : a[i + k] = b[j + k]

longest_size(a, b) ==
    LET sizes == {size \in 0..Min(Len(a), Len(b)) :
                     \E i \in 1..Len(a), j \in 1..Len(b) : is_block(a, b, i, j, size)}
    IN  IF a = << >> \/ b = << >> THEN 0
        ELSE CHOOSE size \in sizes \cup {0} : \A other \in sizes : other <= size

find_longest_match(a, b) ==
    LET size == longest_size(a, b)
        i == CHOOSE i \in 1..Len(a) :
                 /\ \E j \in 1..Len(b) : is_block(a, b, i, j, size)
                 /\ \A i2 \in 1..(i - 1) :
                       ~\E j \in 1..Len(b) : is_block(a, b, i2, j, size)
        j == CHOOSE j \in 1..Len(b) :
                 /\ is_block(a, b, i, j, size)
                 /\ \A j2 \in 1..(j - 1) : ~is_block(a, b, i, j2, size)
    IN  IF size = 0 THEN [a |-> 1, b |-> 1, size |-> 0]
        ELSE [a |-> i, b |-> j, size |-> size]

\* SequenceMatcher.get_matching_blocks: the number of matched characters,
\* the longest block and then the matches on its left and on its right.
RECURSIVE matches(_, _)
matches(a, b) ==
    LET m == find_longest_match(a, b)
    IN  IF m.size = 0 THEN 0
        ELSE m.size
             + matches(SubSeq(a, 1, m.a - 1), SubSeq(b, 1, m.b - 1))
             + matches(SubSeq(a, m.a + m.size, Len(a)), SubSeq(b, m.b + m.size, Len(b)))

\* diff_score: SequenceMatcher(None, a, b).ratio() = 2 * matches / total
\* length (1 when both are empty), kept as a fraction.
diff_score(a, b) ==
    IF Len(a) + Len(b) = 0 THEN [num |-> 1, den |-> 1]
    ELSE [num |-> 2 * matches(a, b), den |-> Len(a) + Len(b)]

\* score > other, for fractions with positive denominators.
score_gt(score, other) == score.num * other.den > other.num * score.den

ZERO_SCORE == [num |-> 0, den |-> 1]

\* The example threshold of translate_or_fetch: 0.7.
EXAMPLE_THRESHOLD == [num |-> 7, den |-> 10]

\* No example: get_best_pair_example_from_cache returns None.
NoExample == [found |-> FALSE, src |-> << >>, tgt |-> << >>, score |-> ZERO_SCORE]

lang_cache_dir(bl, lang, path_hash) == {f \in bl : f.lang = lang}

\* get_lang_cache_path_dir: the chunk files of <cache>/<lang>/<path_hash>.
lang_cache_path_dir(bl, lang, path_hash) ==
    {f \in bl : f.lang = lang /\ f.path_hash = path_hash}

\* get_checksum_for_best_match_in_dir: the files the loop may end on.  It
\* keeps the first file of the best score above 0, and os.walk lists the
\* files in no particular order.
get_checksum_for_best_match_in_dir(dir, txt) ==
    {f \in dir :
        /\ score_gt(diff_score(read_string_from_file(f), txt), ZERO_SCORE)
        /\ \A g \in dir : ~score_gt(diff_score(read_string_from_file(g), txt),
                                    diff_score(read_string_from_file(f), txt))}

\* get_best_pair_example_from_cache: the results the call may return.
get_best_pair_example_from_cache(corr, bl, lang, tgt_lang, txt, relative_path) ==
    LET path_hash == path_hash_of(relative_path)
        dir       == lang_cache_path_dir(bl, lang, path_hash)
        best      == get_checksum_for_best_match_in_dir(dir, txt)
        example(f) ==
            LET src == read_cached_contents_by_lang(bl, f.name, lang, path_hash)
                tgt == lookup(corr, bl, f.name, lang, tgt_lang, relative_path)
            IN  IF tgt = None \/ src = None THEN NoExample
                ELSE [found |-> TRUE, src |-> src, tgt |-> tgt,
                      score |-> diff_score(read_string_from_file(f), txt)]
    IN  IF best = {} THEN {NoExample}
        ELSE {example(f) : f \in best}

----------------------------------------------------------------------------
(* translation_cache/cache_cleaner.py *)

NoLang == "<no language>"    \* lang=None of clear_all

\* Mutation of _iter_lang_cache_files: the files of every language directory.
iter_all_cache_files(bl, lang_name) == bl

\* _iter_lang_cache_files(cache_dir, lang_name): the chunk files below the
\* directory of one language.
iter_lang_cache_files(bl, lang_name) == {f \in bl : f.lang = lang_name}

\* Mutation of _checksum_file_exists: a file of that name below any path
\* directory of the language counts.
checksum_file_exists_in_any_dir(bl, lang_name, path_hash, checksum) ==
    /\ checksum # << >>
    /\ \E f \in bl : f.lang = lang_name /\ f.name = checksum

checksum_file_exists(bl, lang_name, path_hash, checksum) ==
    /\ checksum # << >>
    /\ blob_file(bl, lang_name, path_hash, checksum) # {}

\* Mutation of _row_has_any_language_values: the path column counts too.
row_has_any_values(row, flds) ==
    \E f \in Range(flds) : cell(row, f) # << >>

row_has_any_language_values(row, flds) ==
    \E f \in Range(flds) : f # PATH_CHECKSUM_COLUMN /\ cell(row, f) # << >>

\* The elements of s at the indices in kept, from index i on, in order.
RECURSIVE select_rows(_, _, _)
select_rows(s, kept, i) ==
    IF i > Len(s) THEN << >>
    ELSE (IF i \in kept THEN <<s[i]>> ELSE << >>) \o select_rows(s, kept, i + 1)

RECURSIVE sum_over(_, _)
sum_over(f, S) ==
    IF S = {} THEN 0
    ELSE LET x == CHOOSE y \in S : TRUE IN f[x] + sum_over(f, S \ {x})

\* Mutation of the target pass: every non-empty target cell counts as present.
nonempty_targets(bl, target_cols, row) ==
    {c \in target_cols : cell(row, c) # << >>}

\* The target pass of clear_missing_chunks over one row: the target columns
\* whose cell names a chunk file that exists (present_targets counts them).
present_targets(bl, target_cols, row) ==
    {c \in target_cols :
        /\ cell(row, c) # << >>
        /\ checksum_file_exists(bl, c, cell(row, PATH_CHECKSUM_COLUMN), cell(row, c))}

\* clear_missing_chunks(root_path, source_lang): the cache after the call
\* and the statistics it returns.
clear_missing_chunks(corr, bl, source_lang) ==
    LET source_files == iter_lang_cache_files(bl, source_lang)
    IN
    IF ~corr.exists
    THEN [correspondence |-> corr,
          blobs |-> bl \ source_files,
          stats |-> [removed_rows |-> 0, cleared_fields |-> 0,
                     removed_source_chunks |-> Cardinality(source_files)]]
    ELSE
    LET flds == corr.fields
        rows == corr.data_list
        target_cols == {f \in Range(flds) : f \notin {PATH_CHECKSUM_COLUMN, source_lang}}
        path_of(row) == cell(row, PATH_CHECKSUM_COLUMN)
        src_ok(row) ==
            /\ cell(row, source_lang) # << >>
            /\ checksum_file_exists(bl, source_lang, path_of(row), cell(row, source_lang))
        present(row) == present_targets(bl, target_cols, row)
        missing(row) == {c \in target_cols :
                            /\ cell(row, c) # << >>
                            /\ ~checksum_file_exists(bl, c, path_of(row), cell(row, c))}
        survives(row) == src_ok(row) /\ present(row) # {}
        kept == {i \in 1..Len(rows) : survives(rows[i])}
        cleaned(row) == [f \in DOMAIN row |-> IF f \in missing(row) THEN << >> ELSE row[f]]
        remaining_rows == select_rows([i \in 1..Len(rows) |-> cleaned(rows[i])], kept, 1)
        removed_rows == Len(rows) - Cardinality(kept)
        cleared_fields == sum_over([i \in kept |-> Cardinality(missing(rows[i]))], kept)
        referenced_sources == {<<path_of(rows[i]), cell(rows[i], source_lang)>> : i \in kept}
        orphans == {f \in source_files : <<f.path_hash, f.name>> \notin referenced_sources}
    IN  [correspondence |->
            IF removed_rows > 0 \/ cleared_fields > 0
            THEN [exists |-> TRUE, fields |-> ensure_path_field(flds),
                  data_list |-> remaining_rows]
            ELSE corr,
         blobs |-> bl \ orphans,
         stats |-> [removed_rows |-> removed_rows, cleared_fields |-> cleared_fields,
                    removed_source_chunks |-> Cardinality(orphans)]]

\* Mutation of the wipe: _delete_dir_contents does not descend into the
\* directories below the one it is given.
deleted_top_level_files(bl, lang, path_hash) ==
    {f \in bl :
        /\ path_hash # << >>
        /\ (lang # NoLang => f.lang = lang)
        /\ f.path_hash = path_hash}

\* The files clear_all unlinks: _delete_dir_contents on <cache>/<lang> or
\* every language directory, below <path_hash> when a path is given.
deleted_chunk_files(bl, lang, path_hash) ==
    {f \in bl :
        /\ (lang # NoLang => f.lang = lang)
        /\ (path_hash # << >> => f.path_hash = path_hash)}

\* Mutation of clear_all: the chunk files are deleted but the table is not
\* rewritten.
clear_all_files_only(corr, bl, lang, relative_path) ==
    LET path_hash == IF relative_path # << >> THEN path_hash_of(relative_path) ELSE << >>
        deleted == {f \in bl :
                      /\ (lang # NoLang => f.lang = lang)
                      /\ (path_hash # << >> => f.path_hash = path_hash)}
    IN  [correspondence |-> corr, blobs |-> bl \ deleted,
         stats |-> [removed_rows |-> 0, cleared_fields |-> 0,
                    removed_chunk_files |-> Cardinality(deleted)]]

\* clear_all(root_path, lang, relative_path): the cache after the call and
\* the statistics it returns.  An empty relative_path counts as no path.
clear_all(corr, bl, lang, relative_path) ==
    LET path_hash == IF relative_path # << >> THEN path_hash_of(relative_path) ELSE << >>
        deleted == deleted_chunk_files(bl, lang, path_hash)
        rows == corr.data_list
        flds == corr.fields
        selected(row) == ~ (path_hash # << >> /\ cell(row, PATH_CHECKSUM_COLUMN) # path_hash)
        clears(row) == selected(row) /\ lang # NoLang /\ lang \in Range(flds)
                         /\ cell(row, lang) # << >>
        cleaned(row) == [f \in DOMAIN row |->
                            IF f = lang /\ clears(row) THEN << >> ELSE row[f]]
        survives(row) ==
            \/ ~selected(row)
            \/ lang # NoLang /\ row_has_any_language_values(cleaned(row), flds)
        kept == {i \in 1..Len(rows) : survives(rows[i])}
        remaining_rows == select_rows([i \in 1..Len(rows) |-> cleaned(rows[i])], kept, 1)
        removed_rows == Len(rows) - Cardinality(kept)
        cleared_fields == Cardinality({i \in 1..Len(rows) : clears(rows[i])})
    IN  IF ~corr.exists
        THEN [correspondence |-> corr, blobs |-> bl \ deleted,
              stats |-> [removed_rows |-> 0, cleared_fields |-> 0,
                         removed_chunk_files |-> Cardinality(deleted)]]
        ELSE [correspondence |->
                 IF removed_rows > 0 \/ cleared_fields > 0
                 THEN [exists |-> TRUE, fields |-> ensure_path_field(flds),
                       data_list |-> remaining_rows]
                 ELSE corr,
              blobs |-> bl \ deleted,
              stats |-> [removed_rows |-> removed_rows, cleared_fields |-> cleared_fields,
                         removed_chunk_files |-> Cardinality(deleted)]]

----------------------------------------------------------------------------
(* helpers.py: extract_translated_from_response.  A message is a sequence  *)
(* of characters in which the tags <output> and </output> are one token.   *)

\* message.find(tok, from): the first position >= from holding tok, 0 if none.
RECURSIVE find(_, _, _)
find(message, tok, from) ==
    IF from > Len(message) THEN 0
    ELSE IF message[from] = tok THEN from
    ELSE find(message, tok, from + 1)

keep_prefix_newline(segment) == segment

\* `if segment.startswith("\n"): segment = segment[1:]`
strip_prefix_newline(segment) ==
    IF segment # << >> /\ Head(segment) = "\n" THEN Tail(segment) ELSE segment

\* The while loop of extract_translated_from_response from current_pos on.
RECURSIVE extract_segments(_, _)
extract_segments(message, current_pos) ==
    LET start == find(message, "<output>", current_pos)
        start_idx == start + 1
        end_idx == find(message, "</output>", start_idx)
    IN  IF start = 0 THEN << >>
        ELSE IF end_idx = 0
             THEN strip_prefix_newline(SubSeq(message, start_idx, Len(message)))
             ELSE strip_prefix_newline(SubSeq(message, start_idx, end_idx - 1))
                    \o extract_segments(message, end_idx + 1)

extract_translated_from_response(message) ==
    IF find(message, "<output>", 1) = 0 THEN << >>
    ELSE extract_segments(message, 1)

----------------------------------------------------------------------------
(* translator_retrieval.py: strategies, ChunkTranslator and its retry loop *)

\* str.strip() leaves nothing: every character is white space.
Whitespace == {" ", "\n", "\r", "\t"}

strip_is_never_empty(chunk) == FALSE

strip_is_empty(chunk) == \A i \in 1..Len(chunk) : chunk[i] \in Whitespace

\* The chunker's placeholder test: the segment list of the chunk has no Text
\* segment.  The character "#" stands for one placeholder segment (markup
\* the chunker protects); every other character belongs to a Text segment.
PlaceholderChars == {"#"}
chunk_contains_ph_only(chunk, chunk_type) ==
    \A i \in 1..Len(chunk) : chunk[i] \in PlaceholderChars

\* xml_manipulator_mod/mod.py.  An XML text is a sequence of tokens: each
\* tag of the envelope is one token; an empty element is "<PH" or "<B",
\* its attributes and "/>", an attribute being a name token ("id=",
\* "original=") followed by the tokens of its value; an entity or character
\* reference is one token; everything else is a character.  "<PH#/>"
\* abbreviates <PH original="#"/>, "<PH/>" a PH without attributes and
\* "<B/>" an element of an unknown tag.  <TEXT /> is written <TEXT></TEXT>.
ParseError == <<"<ParseError>">>

XmlTags == {"<document>", "</document>", "<TEXT>", "</TEXT>"}
ElementStarts == {"<PH", "<B"}
AttributeNames == {"id=", "original="}

\* Characters no XML 1.0 document may hold (the form feed stands for the
\* control characters) and characters that are markup when not escaped.
IllegalXmlChars == {"\f"}
MarkupChars == {"<", "&"}

\* xml.etree.ElementTree._escape_cdata: character data of an element.
escape_cdata_char(c) ==
    IF c = "&" THEN "&amp;" ELSE IF c = "<" THEN "&lt;" ELSE IF c = ">" THEN "&gt;" ELSE c

escape_cdata(text) == [k \in 1..Len(text) |-> escape_cdata_char(text[k])]

\* xml.etree.ElementTree._escape_attrib: the value of an attribute.
escape_attrib_char(c) ==
    IF c = "\"" THEN "&quot;"
    ELSE IF c = "\r" THEN "&#13;"
    ELSE IF c = "\n" THEN "&#10;"
    ELSE IF c = "\t" THEN "&#09;"
    ELSE escape_cdata_char(c)

escape_attrib(text) == [k \in 1..Len(text) |-> escape_attrib_char(text[k])]

\* The character an entity or a character reference stands for.
character_of(tok) ==
    IF tok = "&amp;" THEN "&"
    ELSE IF tok = "&lt;" THEN "<"
    ELSE IF tok = "&gt;" THEN ">"
    ELSE IF tok = "&quot;" THEN "\""
    ELSE IF tok = "&#13;" THEN "\r"
    ELSE IF tok = "&#10;" THEN "\n"
    ELSE IF tok = "&#09;" THEN "\t"
    ELSE tok

\* str(ph_id)
str(n) == <<"1", "2", "3", "4", "5", "6", "7", "8", "9">>[n]

\* create_translation_xml, step 1: the segments of a run of consecutive
\* non-text segments, then the merged segments.  A segment is
\* [type, content].
RECURSIVE placeholder_run(_)
placeholder_run(segments) ==
    IF segments = << >> \/ Head(segments).type = "text" THEN 0
    ELSE 1 + placeholder_run(Tail(segments))

RECURSIVE joined(_)
joined(segments) ==
    IF segments = << >> THEN << >>
    ELSE Head(segments).content \o joined(Tail(segments))

RECURSIVE merged_segments(_)
merged_segments(segments) ==
    IF segments = << >> THEN << >>
    ELSE IF Head(segments).type = "text"
         THEN <<Head(segments)>> \o merged_segments(Tail(segments))
         ELSE LET n == placeholder_run(segments)
                  merged_content == joined(SubSeq(segments, 1, n))
              IN  (IF merged_content # << >>
                   THEN <<[type |-> "placeholder", content |-> merged_content]>>
                   ELSE << >>)
                  \o merged_segments(SubSeq(segments, n + 1, Len(segments)))

\* Steps 2 and 3: the children of <TEXT> as ET.tostring writes them, the
\* next placeholder taking the id ph_id.
RECURSIVE serialized(_, _)
serialized(merged, ph_id) ==
    IF merged = << >> THEN << >>
    ELSE IF Head(merged).type = "text"
         THEN escape_cdata(Head(merged).content) \o serialized(Tail(merged), ph_id)
         ELSE <<"<PH", "id=", str(ph_id), "original=">>
              \o escape_attrib(Head(merged).content) \o <<"/>">>
              \o serialized(Tail(merged), ph_id + 1)

\* The XML string of the returned pair.
create_translation_xml(segments) ==
    <<"<document>", "<TEXT>">> \o serialized(merged_segments(segments), 1)
    \o <<"</TEXT>", "</document>">>

\* expat accepts the attributes of an element: names without their values'
\* delimiters, no attribute twice, the values free of markup, of quotes and
\* of illegal characters.
well_formed_attributes(attrs) ==
    /\ attrs # << >> => Head(attrs) \in AttributeNames
    /\ \A j, k \in 1..Len(attrs) :
          (attrs[j] \in AttributeNames /\ attrs[j] = attrs[k]) => j = k
    /\ \A k \in 1..Len(attrs) :
          attrs[k] \notin XmlTags \cup ElementStarts \cup IllegalXmlChars
                          \cup MarkupChars \cup {"\"", "<PH#/>", "<PH/>", "<B/>"}

\* expat accepts the character data and the children of an element.
RECURSIVE well_formed_content(_)
well_formed_content(content) ==
    IF content = << >> THEN TRUE
    ELSE IF Head(content) \in ElementStarts
         THEN LET close == find(content, "/>", 2)
              IN  /\ close # 0
                  /\ well_formed_attributes(SubSeq(content, 2, close - 1))
                  /\ well_formed_content(SubSeq(content, close + 1, Len(content)))
         ELSE /\ Head(content) \notin XmlTags \cup AttributeNames \cup {"/>"}
                                      \cup IllegalXmlChars \cup MarkupChars
              /\ well_formed_content(Tail(content))

\* ET.fromstring accepts the text: one <document> element that holds
\* character data and empty elements, or one <TEXT> element holding them;
\* or a <TEXT> element alone.
well_formed_xml(xml) ==
    /\ Len(xml) >= 2
    /\ \/ /\ xml[1] = "<document>"
          /\ xml[Len(xml)] = "</document>"
          /\ LET inner == SubSeq(xml, 2, Len(xml) - 1)
             IN  \/ well_formed_content(inner)
                 \/ /\ Len(inner) >= 2
                    /\ inner[1] = "<TEXT>"
                    /\ inner[Len(inner)] = "</TEXT>"
                    /\ well_formed_content(SubSeq(inner, 2, Len(inner) - 1))
       \/ /\ xml[1] = "<TEXT>"
          /\ xml[Len(xml)] = "</TEXT>"
          /\ well_formed_content(SubSeq(xml, 2, Len(xml) - 1))

\* The value expat reports for an attribute: references are replaced by
\* their characters, a literal line end or tab by a space.
RECURSIVE attribute_value(_)
attribute_value(toks) ==
    IF toks = << >> THEN << >>
    ELSE IF Head(toks) = "\r" /\ Len(toks) >= 2 /\ toks[2] = "\n"
         THEN <<" ">> \o attribute_value(SubSeq(toks, 3, Len(toks)))
    ELSE IF Head(toks) \in {"\r", "\n", "\t"}
         THEN <<" ">> \o attribute_value(Tail(toks))
    ELSE <<character_of(Head(toks))>> \o attribute_value(Tail(toks))

\* The first position after from that starts another attribute, or the
\* position after the last token.
RECURSIVE value_end(_, _)
value_end(attrs, from) ==
    IF from > Len(attrs) \/ attrs[from] \in AttributeNames THEN from
    ELSE value_end(attrs, from + 1)

get_when_numbered(attrs, name) ==
    LET at == find(attrs, name, 1)
    IN  IF at = 0 \/ find(attrs, "id=", 1) = 0 THEN None
        ELSE attribute_value(SubSeq(attrs, at + 1, value_end(attrs, at + 1) - 1))

\* element.get(name): None when the element has no such attribute.
get(attrs, name) ==
    LET at == find(attrs, name, 1)
    IN  IF at = 0 THEN None
        ELSE attribute_value(SubSeq(attrs, at + 1, value_end(attrs, at + 1) - 1))

\* What one abbreviated child of <TEXT>, or one character of its text,
\* contributes.
reconstructed_part(tok) ==
    IF tok = "<PH#/>" THEN <<"#">>
    ELSE IF tok \in {"<PH/>", "<B/>"} THEN << >>
    ELSE <<character_of(tok)>>

\* The loop over the children of <TEXT>, their tails included; expat hands
\* over character data with "\r\n" and "\r" turned into "\n".
RECURSIVE reconstructed_parts(_)
reconstructed_parts(content) ==
    IF content = << >> THEN << >>
    ELSE IF Head(content) \in ElementStarts
         THEN LET close == find(content, "/>", 2)
                  orig == get(SubSeq(content, 2, close - 1), "original=")
              IN  (IF Head(content) = "<PH" /\ orig # None THEN orig ELSE << >>)
                  \o reconstructed_parts(SubSeq(content, close + 1, Len(content)))
    ELSE IF Head(content) = "\r"
         THEN <<"\n">> \o reconstructed_parts(
                  IF Len(content) >= 2 /\ content[2] = "\n"
                  THEN SubSeq(content, 3, Len(content)) ELSE Tail(content))
    ELSE reconstructed_part(Head(content)) \o reconstructed_parts(Tail(content))

\* root.find('TEXT'): the content of the TEXT child of the root, None
\* when the root has no such child.
text_container(xml) ==
    IF Len(xml) >= 4 /\ xml[1] = "<document>" /\ xml[2] = "<TEXT>"
    THEN SubSeq(xml, 3, Len(xml) - 2)
    ELSE None

reconstruct_from_xml(translated_xml) ==
    IF ~well_formed_xml(translated_xml) THEN ParseError
    ELSE IF text_container(translated_xml) = None THEN << >>
    ELSE reconstructed_parts(text_container(translated_xml))

\* STRATEGY_MAP: the strategy of a (doc_type, chunk_type).
STRATEGY_MAP(doc_type, chunk_type) ==
    IF doc_type = "LaTeX" /\ chunk_type = "LaTeX" THEN "LATEX_STRATEGY"
    ELSE IF doc_type = "JupyterNotebook" /\ chunk_type = "Myst" THEN "MYST_STRATEGY"
    ELSE IF doc_type = "JupyterNotebook" /\ chunk_type = "Code" THEN "CODE_STRATEGY"
    ELSE IF doc_type = "Markdown" /\ chunk_type = "Myst" THEN "MD_STRATEGY"
    ELSE "PLAIN_STRATEGY"

\* The strategy's post-processing of the model's raw answer; ParseError
\* when reconstruct_from_xml raises.
postprocess(strategy, raw) ==
    IF strategy = "CODE_STRATEGY" THEN raw
    ELSE IF strategy = "PLAIN_STRATEGY" THEN extract_translated_from_response(raw)
    ELSE reconstruct_from_xml(extract_translated_from_response(raw))

\* Defaults of ChunkTranslator.__init__ (delays in seconds).
DEFAULT_OVERLOAD_RETRY_ATTEMPTS == 5
DEFAULT_OVERLOAD_RETRY_INITIAL_DELAY == 1
DEFAULT_OVERLOAD_RETRY_MAX_DELAY == 16

\* ChunkTranslator.__init__: the clamping of the three retry parameters.
ChunkTranslator(retry_attempts, retry_initial_delay, retry_max_delay) ==
    [attempts      |-> Max(1, retry_attempts),
     initial_delay |-> Max(0, retry_initial_delay),
     max_delay     |-> Max(Max(0, retry_initial_delay), retry_max_delay)]

\* `delay = self._overload_initial_delay or 1.0`
FALLBACK_DELAY == 1
first_delay(initial_delay) ==
    IF initial_delay = 0 THEN FALLBACK_DELAY ELSE initial_delay

\* `wait_seconds = min(delay, self._overload_max_delay)`
wait_seconds(delay, max_delay) == Min(delay, max_delay)

\* `delay = min(delay * 2, self._overload_max_delay)`
next_delay_constant(delay, max_delay) == Min(delay, max_delay)
next_delay(delay, max_delay) == Min(delay * 2, max_delay)

\* `except ModelOverloadedError`: the one error the loop catches.
catches_every_error(error) == TRUE
is_retried(error) == error = "ModelOverloadedError"

\* `if attempt >= self._overload_attempts: raise exc`
gives_up_one_late(attempt, attempts) == attempt > attempts
gives_up(attempt, attempts) == attempt >= attempts

----------------------------------------------------------------------------
(* Inputs of the cache operations *)

\* Relative paths as callers spell them: two spellings of a.md, and b.md.
RelPaths == { <<"a.md">>, <<".", "/", "a.md">>, <<"b.md">> }

\* The spellings persist_pair is called with.
PersistPaths == { <<".", "/", "a.md">>, <<"b.md">> }

\* Source chunks come from files read with read_string_from_file and hold
\* no carriage return; a translation is whatever the model replied.
SrcTexts == { <<"x">> }
TgtTexts == { <<"x">>, <<"y", "\r", "\n">> }

\* The languages of the project whose cache the operations run on.
ProjectLangs == {"English", "French"}

NoOp == [op |-> "none"]

\* The target file does not exist.
NoTargetFile == [exists |-> FALSE, cells |-> << >>]

\* No pure function is under study.
NoCall == [op |-> "none"]

\* No concurrent task runs.
NoTasks == << >>

\* No file-level translation has been started.
NoFile == [status |-> "none"]

\* The sides (source, target) a language has been persisted on so far.
NoRoles == [l \in Language |-> {}]

\* No project is loaded.
NoProject == [loaded |-> FALSE]

\* A ChunkTranslator built with the default retry parameters.
NoCfg == ChunkTranslator(DEFAULT_OVERLOAD_RETRY_ATTEMPTS,
                         DEFAULT_OVERLOAD_RETRY_INITIAL_DELAY,
                         DEFAULT_OVERLOAD_RETRY_MAX_DELAY)

----------------------------------------------------------------------------
(* Operations of the cache (TranslationCacheCsv and the cleaner) *)

\* What persist_pair does to the cache files.
PersistPairWrites(src_text, tgt_text, src_lang, tgt_lang, relative_path) ==
    LET after == persist_pair(correspondence, blobs, src_lang, tgt_lang,
                              src_text, tgt_text, relative_path)
    IN  /\ path_map' = register_path_hash(path_map, relative_path)
        /\ correspondence' = after.correspondence
        /\ blobs' = after.blobs

PersistPair(src_text, tgt_text, src_lang, tgt_lang, relative_path) ==
    /\ ops < MaxOps
    /\ PersistPairWrites(src_text, tgt_text, src_lang, tgt_lang, relative_path)
    /\ ops' = ops + 1
    /\ last_op' = [op |-> "persist_pair", src_text |-> src_text,
                   tgt_text |-> tgt_text, src_lang |-> src_lang,
                   tgt_lang |-> tgt_lang, relative_path |-> relative_path,
                   src_blob_existed |->
                       blob_file(blobs, src_lang, path_hash_of(relative_path),
                                 calculate_checksum(src_text)) # {},
                   src_row_existed |->
                       \E i \in 1..Len(correspondence.data_list) :
                           /\ correspondence.data_list[i][PATH_CHECKSUM_COLUMN]
                                = path_hash_of(relative_path)
                           /\ cell(correspondence.data_list[i], src_lang)
                                = calculate_checksum(src_text),
                   rows_before |-> Len(correspondence.data_list)]
    /\ lang_roles' = IF src_lang = tgt_lang THEN lang_roles
                     ELSE [lang_roles EXCEPT ![src_lang] = @ \cup {"source"},
                                             ![tgt_lang] = @ \cup {"target"}]
    /\ UNCHANGED tr_vars

Lookup(src_text, src_lang, tgt_lang, relative_path) ==
    /\ ops < MaxOps
    /\ path_map' = register_path_hash(path_map, relative_path)
    /\ correspondence' = correspondence_after_find(correspondence, src_lang, tgt_lang)
    /\ blobs' = blobs
    /\ last_op' = [op |-> "lookup"]
    /\ ops' = ops + 1
    /\ UNCHANGED <<lang_roles, tr_vars>>

ClearAll(lang, relative_path) ==
    LET after == clear_all(correspondence, blobs, lang, relative_path)
    IN  /\ ops < MaxOps
        /\ correspondence' = after.correspondence
        /\ blobs' = after.blobs
        /\ last_op' = [op |-> "clear_all", stats |-> after.stats, lang |-> lang,
                       relative_path |-> relative_path,
                       before |-> [correspondence |-> correspondence, blobs |-> blobs]]
        /\ ops' = ops + 1
        /\ UNCHANGED <<path_map, lang_roles, tr_vars>>

ClearMissingChunks(source_lang) ==
    LET after == clear_missing_chunks(correspondence, blobs, source_lang)
    IN  /\ ops < MaxOps
        /\ correspondence' = after.correspondence
        /\ blobs' = after.blobs
        /\ last_op' = [op |-> "clear_missing_chunks", stats |-> after.stats,
                       source_lang |-> source_lang,
                       before |-> [correspondence |-> correspondence, blobs |-> blobs]]
        /\ ops' = ops + 1
        /\ UNCHANGED <<path_map, lang_roles, tr_vars>>

\* The cache after TranslationCacheCsv(root_path) on a fresh project: the
\* cache directory exists and holds nothing.
InitCache ==
    /\ path_map = << >>
    /\ correspondence = [exists |-> FALSE, fields |-> << >>, data_list |-> << >>]
    /\ blobs = {}
    /\ last_op = NoOp
    /\ ops = 0
    /\ lang_roles = NoRoles

Init ==
    /\ InitCache
    /\ cfg = NoCfg
    /\ call_model = "_dont_call_model"
    /\ pc = "idle"
    /\ cur = [op |-> "none"]
    /\ result = [status |-> "none"]
    /\ returned = {}
    /\ file = NoFile
    /\ target_file = NoTargetFile
    /\ fn = NoCall
    /\ tasks = NoTasks
    /\ project = NoProject

Next ==
    \/ \E s \in SrcTexts, t \in TgtTexts, sl \in ProjectLangs, tl \in ProjectLangs,
          p \in PersistPaths : PersistPair(s, t, sl, tl, p)
    \/ \E tl \in ProjectLangs, p \in RelPaths : Lookup(<<"x">>, "English", tl, p)
    \/ \E l \in ProjectLangs \cup {NoLang}, p \in {<< >>, <<"a.md">>, <<"b.md">>} :
          ClearAll(l, p)
    \/ \E l \in ProjectLangs : ClearMissingChunks(l)

Spec == Init /\ [][Next]_vars

\* Runs of persist_pair alone, over three languages.
NextPairs ==
    /\ ops < MaxPairs
    /\ \E s \in SrcTexts, t \in TgtTexts, sl \in Language, p \in PersistPaths :
          \E tl \in Language \ {sl} : PersistPair(s, t, sl, tl, p)

SpecPairs == Init /\ [][NextPairs]_vars

\* A chunk file of the cache is missing: it was removed, or never written,
\* outside the library.
ChunkFileLost(f) ==
    /\ ops < MaxOps
    /\ f \in blobs
    /\ blobs' = blobs \ {f}
    /\ last_op' = [op |-> "chunk_file_lost"]
    /\ ops' = ops + 1
    /\ UNCHANGED <<path_map, correspondence, lang_roles, tr_vars>>

\* Runs of persist_pair, clear_missing_chunks and clear_all over three
\* languages on a cache that loses chunk files.
NextClean ==
    \/ \E sl \in {"English", "French"}, p \in PersistPaths :
          \E tl \in Language \ {sl} : PersistPair(<<"x">>, <<"y">>, sl, tl, p)
    \/ \E f \in blobs : ChunkFileLost(f)
    \/ \E l \in Language : ClearMissingChunks(l)
    \/ \E l \in {"English", "French", NoLang}, p \in {<< >>, <<"a.md">>} :
          ClearAll(l, p)

SpecClean == Init /\ [][NextClean]_vars

\* register_path_hash(root_path, relative_path), as every method of
\* TranslationCacheCsv calls it first.
RegisterPathHash(relative_path) ==
    /\ ops < MaxOps
    /\ path_map' = register_path_hash(path_map, relative_path)
    /\ ops' = ops + 1
    /\ last_op' = [op |-> "register_path_hash", relative_path |-> relative_path,
                   raised |-> path_hash_collision(path_map, relative_path),
                   before |-> path_map]
    /\ UNCHANGED <<correspondence, blobs, lang_roles, tr_vars>>

\* The spellings of the paths registered: two of one file, another file
\* and a path whose checksum collides with the first.
RegisterPaths == RelPaths \cup {COLLIDING_PATH}

\* Registrations among the operations of the cache; persist_pair goes on
\* when its registration has not raised.
NextRegister ==
    \/ \E p \in RegisterPaths : RegisterPathHash(p)
    \/ \E p \in PersistPaths :
          /\ ~path_hash_collision(path_map, p)
          /\ PersistPair(<<"x">>, <<"y">>, "English", "French", p)
    \/ \E l \in {"English"} : ClearMissingChunks(l)
    \/ \E l \in {"French", NoLang}, p \in {<< >>, <<"a.md">>} : ClearAll(l, p)

SpecRegister == Init /\ [][NextRegister]_vars

\* cli.py, `cache clear --all [--lang L] [--file P] [--keyword K]`: the
\* command hands lang, file_path and keyword to
\* Project.clear_translation_cache_all.  clear_all(root_path, lang,
\* relative_path) has no parameter for the keyword and reads no chunk file:
\* either the keyword does not reach it and it clears what lang and path
\* select, or handing it a fourth argument raises TypeError and the command
\* fails with the cache as it was.
ClearCacheCli(lang, file_path, keyword) ==
    LET after == clear_all(correspondence, blobs, lang, file_path)
    IN  /\ ops < MaxOps
        /\ \/ /\ correspondence' = after.correspondence
              /\ blobs' = after.blobs
              /\ last_op' = [op |-> "cache clear --all", stats |-> after.stats,
                             lang |-> lang, relative_path |-> file_path,
                             keyword |-> keyword,
                             before |-> [correspondence |-> correspondence,
                                         blobs |-> blobs]]
           \/ /\ keyword # None
              /\ UNCHANGED <<correspondence, blobs>>
              /\ last_op' = [op |-> "cache clear --all", error |-> "TypeError",
                             keyword |-> keyword]
        /\ ops' = ops + 1
        /\ UNCHANGED <<path_map, lang_roles, tr_vars>>

\* The keywords of the command: none, or a word of one source chunk.
Keywords == {None, <<"w">>}

\* Runs of persist_pair from English and of `cache clear --all`.
NextCli ==
    \/ \E s \in {<<"x">>, <<"w">>}, tl \in {"French", "German"}, p \in PersistPaths :
          PersistPair(s, <<"y">>, "English", tl, p)
    \/ \E l \in {"French", NoLang}, p \in {<< >>, <<"a.md">>}, k \in Keywords :
          ClearCacheCli(l, p, k)

SpecCli == Init /\ [][NextCli]_vars

----------------------------------------------------------------------------
(* ChunkTranslator.translate_or_fetch with a model caller *)

MaxCalls == 2         \* translate_or_fetch calls in one run

\* Chunks: text, one placeholder, white space alone.
Chunks == { <<"x">>, <<"#">>, <<" ">> }

\* (doc_type, chunk_type) of the plain strategy and of the code strategy.
Kinds == { [doc_type |-> "Other", chunk_type |-> "Other"],
           [doc_type |-> "JupyterNotebook", chunk_type |-> "Code"] }

Metas == { [chunk |-> c, src_lang |-> "English", tgt_lang |-> "French",
            doc_type |-> k.doc_type, chunk_type |-> k.chunk_type,
            rel_path |-> <<"a.md">>] : c \in Chunks, k \in Kinds }

\* What the model may answer: a clean answer, an answer holding a carriage
\* return, an answer that leaves <output> open, an answer without tags.
Replies == { <<"<output>", "y", "</output>">>,
             <<"<output>", "\n", "y", "\r", "\n", "z", "</output>">>,
             <<"<output>", "y">>,
             <<"y">> }

\* What the model call may raise.
Errors == {"ModelOverloadedError", "ApiCallError"}

Idle == [op |-> "none"]

f_call_model_always_cooling(outcome) ==
    IF outcome = "returns"
    THEN <<"caller.call returns", "caller.wait_cooldown">>
    ELSE <<"caller.call raises", "caller.wait_cooldown">>

\* f_call_model (lines 214-219) as the events it causes at the caller:
\* `res = caller.call(t)` returns or raises, and after a return
\* `caller.wait_cooldown()`.
f_call_model(outcome) ==
    IF outcome = "returns"
    THEN <<"caller.call returns", "caller.wait_cooldown">>
    ELSE <<"caller.call raises">>

\* `if example is not None: ... if score > 0.7`: the Meta is upgraded to a
\* WithExampleMeta.
example_attached(example) ==
    example.found /\ score_gt(example.score, EXAMPLE_THRESHOLD)

\* The example of a call: what the retriever returned and, when the Meta
\* was upgraded, the pair it carries.
WithExampleMeta(retrieved) ==
    [retrieved |-> retrieved,
     attached |-> example_attached(retrieved),
     ex_src |-> IF example_attached(retrieved) THEN retrieved.src ELSE << >>,
     ex_tgt |-> IF example_attached(retrieved) THEN retrieved.tgt ELSE << >>]

\* The retriever was not asked.
NotRetrieved == WithExampleMeta(NoExample)

\* The texts earlier calls returned for the same inputs.
returned_for(meta) == {r.text : r \in {q \in returned : q.meta = meta}}

\* translate_or_fetch returns `text`.
Returns(meta, text, raw, hit, calls, overloads, sleeps, events, example, before) ==
    /\ result' = [status |-> "ok", meta |-> meta, text |-> text, raw |-> raw,
                  hit |-> hit,
                  calls |-> calls, overloads |-> overloads, sleeps |-> sleeps,
                  events |-> events, example |-> example,
                  prior |-> returned_for(meta), before |-> before]
    /\ returned' = returned \cup {[meta |-> meta, text |-> text]}
    /\ pc' = "idle"
    /\ cur' = Idle

\* translate_or_fetch raises ChunkTranslationFailed(chunk, exc).
Raises(meta, chunk, cause, calls, overloads, sleeps, events, example, before) ==
    /\ result' = [status |-> "failed", meta |-> meta, chunk |-> chunk,
                  cause |-> cause, calls |-> calls, overloads |-> overloads,
                  sleeps |-> sleeps, events |-> events, example |-> example,
                  before |-> before]
    /\ pc' = "idle"
    /\ cur' = Idle
    /\ UNCHANGED returned

\* Lines 198-231: from the call to the first model call, or to the return
\* when no model call is needed.  get_best_pair_example_from_cache only
\* reads the cache (the path is registered by lookup already); it may
\* return any of the best matches.
TranslateOrFetch(meta) ==
    LET chunk        == meta.chunk
        src_checksum == calculate_checksum(chunk)
        before       == [correspondence |-> correspondence, blobs |-> blobs]
        cached       == lookup(correspondence, blobs, src_checksum,
                               meta.src_lang, meta.tgt_lang, meta.rel_path)
        looked_up    == correspondence_after_find(correspondence,
                               meta.src_lang, meta.tgt_lang)
        strategy     == STRATEGY_MAP(meta.doc_type, meta.chunk_type)
        ph_only      == chunk_contains_ph_only(chunk, meta.chunk_type)
        \* the code strategy keeps _dont_call_model: raw = prompt = chunk
        translated   == IF ph_only THEN chunk ELSE postprocess(strategy, chunk)
        after        == persist_pair(looked_up, blobs, meta.src_lang, meta.tgt_lang,
                                     chunk, translated, meta.rel_path)
        examples     == get_best_pair_example_from_cache(looked_up, blobs,
                               meta.src_lang, meta.tgt_lang, chunk, meta.rel_path)
    IN  /\ pc = "idle"
        /\ ops' = ops + 1
        /\ UNCHANGED <<last_op, lang_roles, cfg>>
        /\ IF strip_is_empty(chunk)
           THEN /\ Returns(meta, chunk, None, FALSE, 0, 0, << >>, << >>,
                           NotRetrieved, before)
                /\ UNCHANGED <<cache_vars, call_model>>
           ELSE /\ path_map' = register_path_hash(path_map, meta.rel_path)
                /\ IF cached # None
                   THEN /\ Returns(meta, cached, None, TRUE, 0, 0, << >>, << >>,
                                   NotRetrieved, before)
                        /\ correspondence' = looked_up
                        /\ UNCHANGED <<blobs, call_model>>
                   ELSE \E retrieved \in examples :
                        /\ call_model' = IF strategy # "CODE_STRATEGY"
                                         THEN "f_call_model" ELSE call_model
                        /\ IF ph_only \/ strategy = "CODE_STRATEGY"
                           THEN /\ correspondence' = after.correspondence
                                /\ blobs' = after.blobs
                                /\ Returns(meta, translated, None, FALSE, 0, 0, << >>, << >>,
                                           WithExampleMeta(retrieved), before)
                           ELSE /\ correspondence' = looked_up
                                /\ blobs' = blobs
                                /\ pc' = "calling"
                                /\ cur' = [meta |-> meta, strategy |-> strategy,
                                           attempt |-> 1,
                                           delay |-> first_delay(cfg.initial_delay),
                                           calls |-> 0, overloads |-> 0,
                                           sleeps |-> << >>, events |-> << >>,
                                           example |-> WithExampleMeta(retrieved),
                                           before |-> before]
                                /\ UNCHANGED <<result, returned>>

\* strategy.run succeeds: caller.call answers `raw`, wait_cooldown, the
\* post-processing, then lines 245-263: persist the pair and return.
ModelReturns(raw) ==
    LET meta       == cur.meta
        translated == postprocess(cur.strategy, raw)
        after      == persist_pair(
                          read_correspondence_cache(correspondence,
                                                    cur.before.correspondence),
                          blobs, meta.src_lang, meta.tgt_lang, meta.chunk,
                          translated, meta.rel_path)
    IN  /\ pc = "calling"
        /\ IF translated = ParseError
           THEN /\ Raises(meta, meta.chunk, "ParseError", cur.calls + 1,
                          cur.overloads, cur.sleeps,
                          cur.events \o f_call_model("returns"), cur.example,
                          cur.before)
                /\ UNCHANGED <<correspondence, blobs>>
           ELSE /\ correspondence' = after.correspondence
                /\ blobs' = after.blobs
                /\ Returns(meta, translated, raw, FALSE, cur.calls + 1,
                           cur.overloads, cur.sleeps,
                           cur.events \o f_call_model("returns"), cur.example,
                          cur.before)
        /\ UNCHANGED <<path_map, api_vars, cfg, call_model>>

\* caller.call raises `error`: lines 270-280 for the error the loop
\* catches, lines 238-243 for every error that leaves _translate_with_retry.
ModelRaises(error) ==
    LET overloads == cur.overloads + (IF error = "ModelOverloadedError" THEN 1 ELSE 0)
    IN  /\ pc = "calling"
        /\ IF is_retried(error) /\ ~gives_up(cur.attempt, cfg.attempts)
           THEN /\ pc' = "sleeping"
                /\ cur' = [cur EXCEPT !.calls = @ + 1, !.overloads = overloads,
                              !.sleeps = Append(@, wait_seconds(cur.delay, cfg.max_delay)),
                              !.events = @ \o f_call_model("raises")]
                /\ UNCHANGED <<result, returned>>
           ELSE Raises(cur.meta, cur.meta.chunk, error, cur.calls + 1, overloads,
                       cur.sleeps, cur.events \o f_call_model("raises"), cur.example,
                       cur.before)
        /\ UNCHANGED <<cache_vars, api_vars, cfg, call_model>>

\* asyncio.sleep(wait_seconds) is over: line 282 and the next iteration.
BackoffElapsed ==
    /\ pc = "sleeping"
    /\ pc' = "calling"
    /\ cur' = [cur EXCEPT !.delay = next_delay(@, cfg.max_delay),
                          !.attempt = @ + 1]
    /\ UNCHANGED <<cache_vars, api_vars, cfg, call_model, result, returned>>

\* translate_or_fetch raises the exception `cause` itself: it was raised
\* outside the try block of lines 240-247.
Propagates(meta, cause, point, before) ==
    /\ result' = [status |-> "error", meta |-> meta, chunk |-> meta.chunk,
                  cause |-> cause, point |-> point, before |-> before]
    /\ pc' = "idle"
    /\ cur' = Idle
    /\ UNCHANGED returned

\* The statements of translate_or_fetch inside `try: ... except Exception`.
inside_try(point) == point = "_translate_with_retry"

\* An exception raised at `point` leaves translate_or_fetch: wrapped in
\* ChunkTranslationFailed when the point is inside the try block, as it is
\* otherwise.
RaisedAt(point, meta, cause, calls, events, example, before) ==
    IF inside_try(point)
    THEN Raises(meta, meta.chunk, cause, calls, 0, << >>, events, example, before)
    ELSE Propagates(meta, cause, point, before)

\* self._store.lookup raises (line 203): the cache directory or a cache
\* file cannot be read or written.
LookupRaises(meta) ==
    /\ pc = "idle"
    /\ ~strip_is_empty(meta.chunk)
    /\ ops' = ops + 1
    /\ RaisedAt("lookup", meta, "OSError", 0, << >>, NotRetrieved,
                [correspondence |-> correspondence, blobs |-> blobs])
    /\ UNCHANGED <<cache_vars, last_op, lang_roles, cfg, call_model>>

\* The model answered `raw`, the post-processing succeeded and
\* self._store.persist_pair raises (line 254).  The chunk file of the
\* source may have been written before the error.
PersistRaises(raw) ==
    LET meta       == cur.meta
        translated == postprocess(cur.strategy, raw)
    IN  /\ pc = "calling"
        /\ translated # ParseError
        /\ RaisedAt("persist_pair", meta, "OSError", cur.calls + 1,
                    cur.events \o f_call_model("returns"), cur.example, cur.before)
        /\ \/ blobs' = blobs
           \/ blobs' = add_contents_to_cache(blobs, meta.chunk, meta.src_lang,
                                              path_hash_of(meta.rel_path))
        /\ UNCHANGED <<path_map, correspondence, api_vars, cfg, call_model>>

\* A translator built with any retry parameters, on a fresh project.
InitTranslate ==
    /\ InitCache
    /\ \E a \in 0..MaxAttemptsParam, i \in 0..MaxDelayParam, m \in 0..MaxDelayParam :
          cfg = ChunkTranslator(a, i, m)
    /\ call_model = "_dont_call_model"
    /\ pc = "idle"
    /\ cur = Idle
    /\ result = [status |-> "none"]
    /\ returned = {}
    /\ file = NoFile
    /\ target_file = NoTargetFile
    /\ fn = NoCall
    /\ tasks = NoTasks
    /\ project = NoProject

NextTranslate ==
    \/ /\ ops < MaxCalls
       /\ \E meta \in Metas : TranslateOrFetch(meta)
       /\ UNCHANGED file_vars
    \/ \E raw \in Replies : ModelReturns(raw) /\ UNCHANGED file_vars
    \/ \E error \in Errors : ModelRaises(error) /\ UNCHANGED file_vars
    \/ BackoffElapsed /\ UNCHANGED file_vars

SpecTranslate == InitTranslate /\ [][NextTranslate]_vars

----------------------------------------------------------------------------
(* doc_translator_mod: the file-level loops of notebook_file_translator,   *)
(* myst_file_translator and latex_file_translator                          *)

MaxCells == 2         \* chunks (cells) of the source file
MaxRuns == 2          \* translations of the file in one run of the model

FileKinds == {"notebook", "myst", "latex"}

\* The cell types of a kind of file: notebook cells are markdown or code,
\* the chunks of a MyST or LaTeX file have no type.
CellTypes(kind) == IF kind = "notebook" THEN {"markdown", "code"} ELSE {"chunk"}

\* The chunk texts of a source file.
FileChunks == { <<"x">>, <<"w">> }

\* jupytext.read / get_myst_cells / get_latex_cells: the source file as
\* cells with empty metadata.
SourceFiles(kind) ==
    UNION { [1..n -> [cell_type : CellTypes(kind), source : FileChunks,
                      metadata : {{}}]] : n \in 0..MaxCells }

\* The relative path and the languages the file is translated with.
FileRelPath == <<"a.md">>

\* The Meta that translate_markdown_cell_async, translate_code_cell_async
\* and the two translate_any_chunk_async build for a cell.
cell_meta(kind, c) ==
    [chunk |-> c.source, src_lang |-> "English", tgt_lang |-> "French",
     doc_type |-> IF kind = "notebook" THEN "JupyterNotebook"
                  ELSE IF kind = "myst" THEN "Markdown" ELSE "LaTeX",
     chunk_type |-> IF kind = "latex" THEN "LaTeX"
                    ELSE IF c.cell_type = "code" THEN "Code" ELSE "Myst",
     rel_path |-> FileRelPath]

cell_left_untagged(kind, c) == c

\* The metadata written before the chunk is translated: the tag
\* needs_review (a member of `tags` in a notebook, a key elsewhere) and
\* src_checksum, the checksum of the source text.
cell_tagged_for_review(kind, c) ==
    [c EXCEPT !.metadata =
        @ \cup {IF kind = "notebook" THEN <<"tags", "needs_review">>
                ELSE <<"needs_review", "True">>,
                <<"src_checksum", calculate_checksum(c.source)>>}]

\* `except ChunkTranslationFailed as exc:` the notebook and the MyST loop
\* handle the failure of a chunk; translate_chunk_async of the LaTeX loop
\* has no handler.
handles_failure(kind) == kind \in {"notebook", "myst"}

\* The handler: the chunk carried by the exception is written back and the
\* metadata is tagged.
cell_not_translated(kind, c, chunk) ==
    [c EXCEPT !.source = chunk,
                 !.metadata =
        @ \cup (IF kind = "notebook"
                THEN {<<"tags", "not-translated-due-to-exception">>}
                ELSE {})
          \cup {<<"not-translated-due-to-exception", "True">>}]

\* `for i in range(len(cells))`: the cell after cell i.
skips_a_cell(i) == i + 2
next_cell(i) == i + 1

\* The loop reaches cell i and sets its review metadata.
cell_started(f) ==
    [f EXCEPT !.cells[f.i] = cell_tagged_for_review(f.kind, @),
              !.log = Append(@, <<"start", f.i>>)]

catches_any_exception(kind, r) == handles_failure(kind)

\* `except ChunkTranslationFailed as exc:` catches the result r of
\* translate_or_fetch.
catches(kind, r) == handles_failure(kind) /\ r.status = "failed"

\* translate_or_fetch of cell i has ended with the result r.
cell_ended(f, r) ==
    IF r.status = "ok"
    THEN [f EXCEPT !.cells[f.i].source = r.text,
                   !.completed = @ \cup {f.source[f.i].source},
                   !.log = Append(@, <<"end", f.i>>),
                   !.i = next_cell(@)]
    ELSE IF catches(f.kind, r)
    THEN [f EXCEPT !.cells[f.i] = cell_not_translated(f.kind, @, r.chunk),
                   !.log = Append(@, <<"failed", f.i>>),
                   !.i = next_cell(@)]
    ELSE [f EXCEPT !.status = "aborted",
                   !.log = Append(@, <<"raised", f.i>>)]

\* The loop's part of a step of translate_or_fetch for the current cell.
FileAfter(f) ==
    file' = IF pc' = "idle" THEN cell_ended(f, result') ELSE f

\* translate_notebook_async / translate_file_async is called on a source
\* file: the cells are read.
StartFile(kind, source) ==
    /\ pc = "idle"
    /\ \/ /\ file.status = "none"
          /\ file' = [status |-> "running", kind |-> kind, source |-> source,
                      cells |-> source, i |-> 1, log |-> << >>, run |-> 1,
                      calls |-> 0, completed |-> {}]
       \/ /\ file.status \in {"aborted", "written"}
          /\ file.run < MaxRuns
          /\ kind = file.kind
          /\ source = file.source
          /\ file' = [file EXCEPT !.status = "running", !.cells = source,
                                  !.i = 1, !.log = << >>, !.run = @ + 1,
                                  !.calls = 0]
    /\ UNCHANGED <<cache_vars, api_vars, cfg, call_model, pc, cur, result,
                   returned, target_file, fn, tasks, project>>

\* The loop body for cell i: the metadata, then the call of
\* translate_or_fetch up to its return or its first model call.
FileTranslateChunk ==
    /\ file.status = "running"
    /\ file.i <= Len(file.cells)
    /\ TranslateOrFetch(cell_meta(file.kind, file.cells[file.i]))
    /\ FileAfter(cell_started(file))
    /\ UNCHANGED <<target_file, fn, tasks, project>>

FileModelReturns(raw) ==
    /\ file.status = "running"
    /\ ModelReturns(raw)
    /\ FileAfter([file EXCEPT !.calls = @ + 1])
    /\ UNCHANGED <<target_file, fn, tasks, project>>

FileModelRaises(error) ==
    /\ file.status = "running"
    /\ ModelRaises(error)
    /\ FileAfter([file EXCEPT !.calls = @ + 1])
    /\ UNCHANGED <<target_file, fn, tasks, project>>

FileBackoffElapsed ==
    /\ file.status = "running"
    /\ BackoffElapsed
    /\ FileAfter(file)
    /\ UNCHANGED <<target_file, fn, tasks, project>>

\* After the loop: jupytext.write / open(target_file_path, "w").
WriteTarget ==
    /\ file.status = "running"
    /\ pc = "idle"
    /\ file.i > Len(file.cells)
    /\ target_file' = [exists |-> TRUE, cells |-> file.cells]
    /\ file' = [file EXCEPT !.status = "written"]
    /\ UNCHANGED <<cache_vars, api_vars, cfg, call_model, pc, cur, result, returned, fn, tasks, project>>

\* The cache raises while the cell is looked up, or while its translation
\* is persisted.
FileLookupRaises ==
    /\ file.status = "running"
    /\ file.i <= Len(file.cells)
    /\ LookupRaises(cell_meta(file.kind, file.cells[file.i]))
    /\ FileAfter(cell_started(file))
    /\ UNCHANGED <<target_file, fn, tasks, project>>

FilePersistRaises(raw) ==
    /\ file.status = "running"
    /\ PersistRaises(raw)
    /\ FileAfter([file EXCEPT !.calls = @ + 1])
    /\ UNCHANGED <<target_file, fn, tasks, project>>

\* The translation of the file ends between two chunks with an exception
\* that is not ChunkTranslationFailed (an error of the cache or of building
\* the Meta, a cancellation): it leaves the loop and the function.
FileAborted ==
    /\ file.status = "running"
    /\ pc = "idle"
    /\ file' = [file EXCEPT !.status = "aborted"]
    /\ UNCHANGED <<cache_vars, api_vars, cfg, call_model, pc, cur, result,
                   returned, target_file, fn, tasks, project>>

\* What the model answers to the prompt of a chunk of a file: an XML
\* document inside <output>, or an answer without <output>.
FileReplies == { <<"<output>", "<document>", "<TEXT>", "y", "</TEXT>",
                   "</document>", "</output>">>,
                 <<"y">> }

\* A fresh project; build_translator_with_model builds every translator
\* with the default retry parameters.
InitFile ==
    /\ InitCache
    /\ cfg = NoCfg
    /\ call_model = "_dont_call_model"
    /\ pc = "idle"
    /\ cur = Idle
    /\ result = [status |-> "none"]
    /\ returned = {}
    /\ file = NoFile
    /\ target_file = NoTargetFile
    /\ fn = NoCall
    /\ tasks = NoTasks
    /\ project = NoProject

NextFile ==
    \/ \E kind \in FileKinds : \E source \in SourceFiles(kind) : StartFile(kind, source)
    \/ FileTranslateChunk
    \/ \E raw \in FileReplies : FileModelReturns(raw)
    \/ \E error \in Errors : FileModelRaises(error)
    \/ FileBackoffElapsed
    \/ WriteTarget
    \/ FileAborted

SpecFile == InitFile /\ [][NextFile]_vars

\* Translations of a file during which the cache may fail.
NextCacheError ==
    \/ \E kind \in FileKinds : \E source \in SourceFiles(kind) : StartFile(kind, source)
    \/ FileTranslateChunk
    \/ FileLookupRaises
    \/ \E raw \in FileReplies : FileModelReturns(raw)
    \/ \E raw \in FileReplies : FilePersistRaises(raw)
    \/ FileModelRaises("ApiCallError")
    \/ WriteTarget

SpecCacheError == InitFile /\ [][NextCacheError]_vars

----------------------------------------------------------------------------
(* Properties of the cache *)

(* Claims about translate_or_fetch, checked under SpecTranslate *)

\* The cache holds the pair (chunk -> text) of the call `r` under its path:
\* both chunk files with their contents, and exactly one row of the path
\* whose source cell names the chunk, its target cell naming the text.
pair_persisted(r, text) ==
    LET path_hash == path_hash_of(r.meta.rel_path)
        rows == correspondence.data_list
        holding == {i \in 1..Len(rows) :
                       /\ rows[i][PATH_CHECKSUM_COLUMN] = path_hash
                       /\ cell(rows[i], r.meta.src_lang) = calculate_checksum(r.meta.chunk)}
    IN  /\ \E f \in blob_file(blobs, r.meta.src_lang, path_hash,
                              calculate_checksum(r.meta.chunk)) :
              f.contents = r.meta.chunk
        /\ \E f \in blob_file(blobs, r.meta.tgt_lang, path_hash,
                              calculate_checksum(text)) :
              f.contents = text
        /\ Cardinality(holding) = 1
        /\ \A i \in holding : cell(rows[i], r.meta.tgt_lang) = calculate_checksum(text)

\* The call `r` wrote no chunk file and no row.
nothing_persisted(r) ==
    /\ blobs = r.before.blobs
    /\ correspondence.data_list = r.before.correspondence.data_list

\* C1 as stated: when translate_or_fetch returns for inputs it has returned
\* a translation for before, it returns that same text, character for
\* character, and has not called the model.
C1_SecondCallFromCache ==
    (result.status = "ok" /\ result.prior # {}) =>
        (result.prior = {result.text} /\ result.calls = 0)

\* C2: a call that fails with an error other than ModelOverloadedError
\* made no attempt and no sleep after the call that raised it (one attempt
\* and no sleep at all when no overload came first), raises
\* ChunkTranslationFailed with the chunk and that error, and wrote no
\* chunk file and no row.
C2_OtherErrorsNotRetried ==
    (result.status = "failed" /\ result.cause # "ModelOverloadedError") =>
        /\ result.calls = result.overloads + 1
        /\ Len(result.sleeps) = result.overloads
        /\ (result.overloads = 0 => (result.calls = 1 /\ result.sleeps = << >>))
        /\ result.chunk = result.meta.chunk
        /\ result.cause = "ApiCallError"
        /\ nothing_persisted(result)

C2_Witness ==
    /\ result.status = "failed"
    /\ result.cause = "ApiCallError"
    /\ result.calls = 1
    /\ result.sleeps = << >>
    /\ cfg.attempts > 1

\* What C3 says of a call that returned after n overloads, for a first
\* delay d0.
backoff_then_success(d0) ==
    (result.status = "ok" /\ result.calls > 0) =>
        LET n == result.overloads
        IN  /\ n < cfg.attempts
            /\ result.calls = n + 1
            /\ Len(result.sleeps) = n
            /\ \A k \in 0..(n - 1) :
                  result.sleeps[k + 1] = Min(d0 * 2^k, cfg.max_delay)
            /\ result.text = extract_translated_from_response(result.raw)
            /\ pair_persisted(result, result.text)
            /\ blobs \subseteq result.before.blobs \cup
                  { [lang |-> result.meta.src_lang,
                     path_hash |-> path_hash_of(result.meta.rel_path),
                     name |-> calculate_checksum(result.meta.chunk),
                     contents |-> result.meta.chunk],
                    [lang |-> result.meta.tgt_lang,
                     path_hash |-> path_hash_of(result.meta.rel_path),
                     name |-> calculate_checksum(result.text),
                     contents |-> result.text] }
            /\ Len(correspondence.data_list)
                  <= Len(result.before.correspondence.data_list) + 1

\* C3 as stated: n overloads then an answer give n + 1 attempts and n
\* sleeps, the k-th lasting min(initial_delay * 2^k, max_delay), and one
\* persisted pair.
C3_BackoffFromInitialDelay == backoff_then_success(cfg.initial_delay)

\* C3 amended: the same, the k-th sleep lasting min(d0 * 2^k, max_delay)
\* with d0 = initial_delay when that is positive and one second when
\* initial_delay is 0.
C3_BackoffFromFirstDelay ==
    backoff_then_success(IF cfg.initial_delay > 0 THEN cfg.initial_delay
                         ELSE FALLBACK_DELAY)

\* Two overloads, then an answer; the second sleep is the doubled first one.
C3_Witness ==
    /\ result.status = "ok"
    /\ result.overloads = 2
    /\ result.calls = 3
    /\ cfg.initial_delay = 2
    /\ result.sleeps = <<2, 4>>

\* C4: the model is never called more than `attempts` times in one call of
\* translate_or_fetch; a call that fails with ModelOverloadedError made
\* exactly `attempts` attempts, all overloaded, raises
\* ChunkTranslationFailed with the chunk and the overload error, and wrote
\* no chunk file and no row.
C4_OverloadExhaustsAttempts ==
    /\ pc # "idle" => cur.calls <= cfg.attempts
    /\ pc = "calling" => cur.calls < cfg.attempts
    /\ result.status \in {"ok", "failed"} => result.calls <= cfg.attempts
    /\ (result.status = "failed" /\ result.cause = "ModelOverloadedError") =>
          /\ result.calls = cfg.attempts
          /\ result.overloads = cfg.attempts
          /\ Len(result.sleeps) = cfg.attempts - 1
          /\ result.chunk = result.meta.chunk
          /\ nothing_persisted(result)

C4_Witness ==
    /\ result.status = "failed"
    /\ result.cause = "ModelOverloadedError"
    /\ cfg.attempts = 3
    /\ result.calls = 3

\* C5: a call for a placeholder-only chunk returns the chunk unchanged
\* without a model call, and the cache then holds the pair (chunk, chunk).
C5_PlaceholderOnlySkipsModel ==
    (/\ result.status = "ok"
     /\ chunk_contains_ph_only(result.meta.chunk, result.meta.chunk_type)
     /\ ~strip_is_empty(result.meta.chunk)) =>
        /\ result.calls = 0
        /\ result.text = result.meta.chunk
        /\ pair_persisted(result, result.meta.chunk)

\* A first call (no cache hit) for the placeholder-only chunk, under the
\* plain strategy, which would otherwise call the model.
C5_Witness ==
    /\ result.status = "ok"
    /\ result.meta.chunk = <<"#">>
    /\ result.meta.doc_type = "Other"
    /\ ~result.hit
    /\ call_model = "f_call_model"
    /\ pair_persisted(result, <<"#">>)

----------------------------------------------------------------------------
(* Claims about the file-level loops, checked under SpecFile *)

\* The log of a loop that takes the cells in document order, one at a
\* time: start 1, its end, start 2, its end, ...
in_document_order(log) ==
    \A k \in 1..Len(log) :
        /\ log[k][2] = (k + 1) \div 2
        /\ log[k][1] \in (IF k % 2 = 1 THEN {"start"} ELSE {"end", "failed", "raised"})

\* C11 as stated: in every loop, a chunk whose translate_or_fetch raised
\* ChunkTranslationFailed is written back with its source text and tagged
\* not-translated-due-to-exception, and the exception never leaves the
\* loop (the file is not aborted by it).
C11_FailedChunkIsKeptAndTagged ==
    file.status # "none" =>
        \A k \in 1..Len(file.log) :
            /\ file.log[k][1] # "raised"
            /\ file.log[k][1] = "failed" =>
                  LET c == file.cells[file.log[k][2]]
                  IN  /\ c.source = file.source[file.log[k][2]].source
                      /\ <<"not-translated-due-to-exception", "True">> \in c.metadata

\* C12: the cells are taken in document order, cell i+1 is started only
\* when the call for cell i has returned or failed, and the target file is
\* written only by the step that follows the end of the last cell.
C12_InDocumentOrder ==
    /\ file.status # "none" => in_document_order(file.log)
    /\ (file.status # "none" /\ pc # "idle") =>
          (Len(file.log) % 2 = 1 /\ file.log[Len(file.log)] = <<"start", file.i>>)
    /\ file.status = "written" =>
          (Len(file.log) = 2 * Len(file.source) /\ target_file.cells = file.cells)

C12_TargetWrittenLast ==
    [][target_file' # target_file =>
          /\ pc = "idle"
          /\ Len(file.log) = 2 * Len(file.source)
          /\ file.log # << >> => file.log[Len(file.log)][1] \in {"end", "failed"}
          /\ target_file' = [exists |-> TRUE, cells |-> file.cells]]_vars

C12_ChunksInOrderTargetLast == []C12_InDocumentOrder /\ C12_TargetWrittenLast

\* Both cells of a two-cell file were translated and the file was written.
C12_Witness ==
    /\ file.status = "written"
    /\ Len(file.source) = 2
    /\ file.log = <<<<"start", 1>>, <<"end", 1>>, <<"start", 2>>, <<"end", 2>>>>
    /\ file.calls = 2

\* C13: an aborted translation writes no target file (the target file, if
\* any, is the complete output of a run that reached its end); the pair of
\* every chunk completed so far stays in the cache; and the model is called
\* only for a chunk the cache misses, never for the text of a chunk that
\* has completed in this or an earlier run.
C13_Resumable ==
    file.status # "none" =>
        /\ (file.status = "aborted" /\ file.run = 1) => ~target_file.exists
        /\ target_file.exists => Len(target_file.cells) = Len(file.source)
        /\ \A t \in file.completed :
              lookup(correspondence, blobs, calculate_checksum(t), "English",
                     "French", FileRelPath) # None
        /\ pc # "idle" =>
              /\ cur.meta.chunk \notin file.completed
              /\ lookup(cur.before.correspondence, cur.before.blobs,
                        calculate_checksum(cur.meta.chunk), "English",
                        "French", FileRelPath) = None

C13_AbortKeepsCache ==
    [][(file.status = "running" /\ file'.status = "aborted") =>
          (UNCHANGED cache_vars /\ UNCHANGED target_file)]_vars

C13_AbortedTranslationResumes == []C13_Resumable /\ C13_AbortKeepsCache

\* The first run was aborted after its first chunk, translated by the
\* model; the second run has taken that chunk from the cache without a
\* model call and now calls the model for the second chunk.
C13_Witness ==
    /\ file.status = "running"
    /\ file.run = 2
    /\ ~target_file.exists
    /\ Len(file.source) = 2
    /\ file.source[1].source = <<"x">>
    /\ file.source[1].cell_type # "code"
    /\ file.source[2].source = <<"w">>
    /\ file.i = 2
    /\ file.calls = 0
    /\ pc = "calling"

----------------------------------------------------------------------------
(* Claims about the cache, checked under Spec and SpecPairs *)

Rows == correspondence.data_list
LangFields == Range(correspondence.fields) \ {PATH_CHECKSUM_COLUMN}

\* C6: every non-empty cell of every correspondence row references a blob
\* file that exists in that column's language directory under the row's
\* path_hash subdirectory.
C6_CellsReferenceBlobs ==
    \A i \in 1..Len(Rows) : \A f \in LangFields :
        Rows[i][f] # << >> =>
            blob_file(blobs, f, Rows[i][PATH_CHECKSUM_COLUMN], Rows[i][f]) # {}

\* A cleaner has just cleared a cell and left a row that still cites a blob.
C6_Witness ==
    /\ last_op.op \in {"clear_all", "clear_missing_chunks"}
    /\ last_op.stats.cleared_fields > 0
    /\ \E i \in 1..Len(Rows) : \E f \in LangFields : Rows[i][f] # << >>

\* The rows of one path that hold checksum h in the column of language l.
rows_holding(l, path_hash, h) ==
    {i \in 1..Len(Rows) :
        /\ Rows[i][PATH_CHECKSUM_COLUMN] = path_hash
        /\ cell(Rows[i], l) = h}

one_row_per_checksum(l) ==
    \A i \in 1..Len(Rows) :
        cell(Rows[i], l) # << >> =>
            Cardinality(rows_holding(l, Rows[i][PATH_CHECKSUM_COLUMN],
                                     cell(Rows[i], l))) = 1

\* C7 as stated: at most one row per (path_hash, src_checksum) pair, for
\* every language that persists have used as their source.
C7_OneRowPerSourceChecksum ==
    \A l \in Language : "source" \in lang_roles[l] => one_row_per_checksum(l)

\* C7, amended: at most one row per (path_hash, src_checksum) pair in the
\* column of every language that persists wrote as a source only; and a
\* persist never appends a row when its (path_hash, src_checksum) already
\* has one: it leaves the number of rows as it was.
C7_OneRowPerSourceOnlyChecksum ==
    /\ \A l \in Language :
          ("source" \in lang_roles[l] /\ "target" \notin lang_roles[l])
              => one_row_per_checksum(l)
    /\ (last_op.op = "persist_pair" /\ last_op.src_lang # last_op.tgt_lang) =>
          Len(Rows) = IF last_op.src_row_existed THEN last_op.rows_before
                      ELSE last_op.rows_before + 1

\* A second persist for the same (path_hash, src_checksum) has filled
\* another cell of the one row.
C7_Witness ==
    /\ last_op.op = "persist_pair"
    /\ Len(Rows) = 1
    /\ last_op.src_row_existed
    /\ "target" \notin lang_roles["English"]
    /\ Rows[1]["English"] = calculate_checksum(<<"x">>)
    /\ cell(Rows[1], "French") # << >>
    /\ cell(Rows[1], "German") # << >>

\* Every query the callers can make of the table in the current state.
QueryTexts == SrcTexts \cup TgtTexts

\* C8: find_correspondent_checksum and lookup answer only from a row whose
\* path_checksum is the hash of the queried path and whose target cell is
\* not empty: a pair held only under another path hash is never returned.
C8_LookupScopedToPathHash ==
    \A s \in QueryTexts, sl \in Language, tl \in Language, p \in RelPaths :
        LET found == find_correspondent_checksum(correspondence,
                         calculate_checksum(s), sl, tl, path_hash_of(p))
            hit   == lookup(correspondence, blobs, calculate_checksum(s), sl, tl, p)
            backing(h) ==
                \E i \in 1..Len(Rows) :
                    /\ Rows[i][PATH_CHECKSUM_COLUMN] = path_hash_of(p)
                    /\ cell(Rows[i], sl) = calculate_checksum(s)
                    /\ cell(Rows[i], tl) = h
                    /\ h # << >>
        IN  /\ found # None => backing(found)
            /\ hit # None => (found # None /\ backing(found))

\* The pair (x, English -> French) is held under a.md only, a French blob
\* of the same name lies under b.md, and the query for b.md misses; and a
\* row whose French cell was cleared exists and its query misses too.
C8_Witness ==
    /\ lookup(correspondence, blobs, calculate_checksum(<<"x">>),
              "English", "French", <<"a.md">>) # None
    /\ blob_file(blobs, "French", path_hash_of(<<"b.md">>),
                 calculate_checksum(<<"x">>)) # {}
    /\ lookup(correspondence, blobs, calculate_checksum(<<"x">>),
              "English", "French", <<"b.md">>) = None

C8_WitnessEmptyCell ==
    /\ \E i \in 1..Len(Rows) :
          /\ Rows[i][PATH_CHECKSUM_COLUMN] = path_hash_of(<<"a.md">>)
          /\ cell(Rows[i], "English") = calculate_checksum(<<"x">>)
          /\ "French" \in DOMAIN Rows[i]
          /\ Rows[i]["French"] = << >>
    /\ lookup(correspondence, blobs, calculate_checksum(<<"x">>),
              "English", "French", <<"a.md">>) = None

\* C9 as stated: after persist_pair(src_text, tgt_text, src_lang, tgt_lang,
\* path) between two different languages, lookup(checksum(src_text),
\* src_lang, tgt_lang, path) returns tgt_text, also when the call replaced
\* an earlier target of the same source.
C9_LookupReturnsLastPersisted ==
    (last_op.op = "persist_pair" /\ last_op.src_lang # last_op.tgt_lang) =>
        lookup(correspondence, blobs, calculate_checksum(last_op.src_text),
               last_op.src_lang, last_op.tgt_lang, last_op.relative_path)
          = last_op.tgt_text

\* C10: the name of every blob file is the checksum of its contents, no two
\* files share a place, and no step changes the contents of a file that
\* exists before and after it (add_contents_to_cache on a text whose file
\* exists writes nothing).
C10_BlobsContentAddressed ==
    /\ \A f \in blobs : f.name = calculate_checksum(f.contents)
    /\ \A f \in blobs, g \in blobs :
          (f.lang = g.lang /\ f.path_hash = g.path_hash /\ f.name = g.name) => f = g

C10_BlobsNeverRewritten ==
    [][\A f \in blobs : \A g \in blobs' :
          (f.lang = g.lang /\ f.path_hash = g.path_hash /\ f.name = g.name)
              => g.contents = f.contents]_vars

C10_BlobsWriteOnce == []C10_BlobsContentAddressed /\ C10_BlobsNeverRewritten

\* persist_pair has just been handed a source text whose blob file existed.
C10_Witness ==
    /\ last_op.op = "persist_pair"
    /\ last_op.src_blob_existed
    /\ blob_file(blobs, last_op.src_lang, path_hash_of(last_op.relative_path),
                 calculate_checksum(last_op.src_text)) # {}

----------------------------------------------------------------------------
(* translation_store/db_rebuilder.py and sync_translation_cache *)

\* _build_source_chunk_map: the texts of the chunks of the source file; the
\* dictionary maps calculate_checksum(text) to text.
build_source_chunk_map(source) == {source[i].source : i \in 1..Len(source)}

\* _iter_target_chunks: (src_checksum, text) of the target chunks that
\* carry a src_checksum, from chunk i on, in order.
RECURSIVE iter_target_chunks(_, _)
iter_target_chunks(target, i) ==
    IF i > Len(target) THEN << >>
    ELSE (IF target[i].src_checksum = << >> THEN << >>
          ELSE << <<target[i].src_checksum, target[i].source>> >>)
         \o iter_target_chunks(target, i + 1)

\* The loop of collect_translation_pairs over the target chunks from i on.
RECURSIVE recovered_from(_, _, _)
recovered_from(src_chunks, tgt_chunks, i) ==
    IF i > Len(tgt_chunks) THEN << >>
    ELSE LET known == {s \in src_chunks : calculate_checksum(s) = tgt_chunks[i][1]}
         IN  (IF known = {} THEN << >>
              ELSE << [src_checksum |-> tgt_chunks[i][1],
                       src_text |-> CHOOSE s \in known : TRUE,
                       tgt_text |-> tgt_chunks[i][2]] >>)
             \o recovered_from(src_chunks, tgt_chunks, i + 1)

\* Mutation of collect_translation_pairs: the loop stops after the first
\* target chunk that carries a src_checksum.
collect_first_target_chunk(source, target, doc_type) ==
    IF doc_type = "Other" THEN << >>
    ELSE IF build_source_chunk_map(source) = {} THEN << >>
    ELSE LET tgt_chunks == iter_target_chunks(target, 1)
         IN  recovered_from(build_source_chunk_map(source),
                            IF tgt_chunks = << >> THEN << >> ELSE <<tgt_chunks[1]>>, 1)

collect_translation_pairs(source, target, doc_type) ==
    IF doc_type = "Other" THEN << >>
    ELSE IF build_source_chunk_map(source) = {} THEN << >>
    ELSE recovered_from(build_source_chunk_map(source), iter_target_chunks(target, 1), 1)

\* sync_translation_cache, `for pair in recovered_pairs`: the cache after
\* persisting the pairs in order.
RECURSIVE persist_recovered(_, _, _, _, _, _)
persist_recovered(corr, bl, pairs, src_lang, tgt_lang, relative_path) ==
    IF pairs = << >> THEN [correspondence |-> corr, blobs |-> bl]
    ELSE LET after == persist_pair(corr, bl, src_lang, tgt_lang, pairs[1].src_text,
                                   pairs[1].tgt_text, relative_path)
         IN  persist_recovered(after.correspondence, after.blobs, Tail(pairs),
                               src_lang, tgt_lang, relative_path)

\* The files the rebuilder reads: a source file of up to MaxCells chunks
\* and its target twin, whose chunks carry no src_checksum, the checksum of
\* a source text, or the checksum of a text the source no longer holds.
RebuildSrcTexts == { <<"x">>, <<"w">> }
RebuildTgtTexts == { <<"y">>, <<"z", "\r">> }
RebuildChecksums ==
    {<< >>} \cup {calculate_checksum(s) : s \in RebuildSrcTexts \cup {<<"q">>}}
RebuildSources ==
    UNION {[1..n -> [source : RebuildSrcTexts]] : n \in 0..MaxCells}
RebuildTargets ==
    UNION {[1..n -> [source : RebuildTgtTexts, src_checksum : RebuildChecksums]] :
             n \in 0..MaxCells}
RebuildDocTypes == {"JupyterNotebook", "Markdown", "LaTeX", "Other"}

\* sync_translation_cache for one translatable file and one target
\* language: collect the pairs, then persist each of them.
SyncTranslationCache(source, target, doc_type) ==
    LET recovered_pairs == collect_translation_pairs(source, target, doc_type)
        after == persist_recovered(correspondence, blobs, recovered_pairs,
                                   "English", "French", FileRelPath)
    IN  /\ ops < MaxOps
        /\ path_map' = IF recovered_pairs = << >> THEN path_map
                       ELSE register_path_hash(path_map, FileRelPath)
        /\ correspondence' = after.correspondence
        /\ blobs' = after.blobs
        /\ last_op' = [op |-> "sync_translation_cache", source |-> source,
                       target |-> target, doc_type |-> doc_type,
                       recovered_pairs |-> recovered_pairs,
                       run |-> IF last_op.op = "sync_translation_cache"
                               THEN last_op.run + 1 ELSE 1,
                       before |-> [path_map |-> path_map,
                                   correspondence |-> correspondence,
                                   blobs |-> blobs]]
        /\ ops' = ops + 1
        /\ UNCHANGED <<lang_roles, tr_vars>>

\* Runs of a rebuild, repeated over the same files, on a fresh cache or on
\* one that holds a pair.
NextRebuild ==
    \/ /\ last_op.op = "none"
       /\ \E t \in RebuildTgtTexts :
             PersistPair(<<"x">>, t, "English", "French", FileRelPath)
    \/ /\ last_op.op # "sync_translation_cache"
       /\ \E source \in RebuildSources, target \in RebuildTargets,
             doc_type \in RebuildDocTypes :
             SyncTranslationCache(source, target, doc_type)
    \/ /\ last_op.op = "sync_translation_cache"
       /\ last_op.run < MaxRuns
       /\ SyncTranslationCache(last_op.source, last_op.target, last_op.doc_type)

SpecRebuild == Init /\ [][NextRebuild]_vars

----------------------------------------------------------------------------
(* The XML envelope: create_translation_xml, the model's reply and        *)
(* reconstruct_from_xml, on segment streams and replies of bounded size.  *)

MaxSegments == 2      \* segments of a chunk
MaxContentLen == 1    \* characters of one segment
MaxItems == 2         \* children and text runs of a reply's <TEXT>

\* Characters of a segment: a letter, a markup character, the line ends
\* and a control character.
SegmentChars == {"a", "<", "\r", "\n", "\f"}

SegmentContents == UNION {[1..n -> SegmentChars] : n \in 0..MaxContentLen}

Segments == [type : {"text", "placeholder"}, content : SegmentContents]

SegmentStreams == UNION {[1..n -> Segments] : n \in 0..MaxSegments}

\* One part of the <TEXT> of a reply: a character of text, or an element
\* with its tag, its id attribute (None: no id) and its original
\* attribute (None: no original).
ReplyItems ==
    [tag : {"text"}, id : {None}, original : {None}, content : {<<"b">>}]
    \cup [tag : {"<PH"}, id : {None, <<"1">>, <<"7">>},
          original : {None, << >>, <<"$">>, <<"<">>}, content : {<< >>}]
    \cup [tag : {"<B"}, id : {None}, original : {None, <<"$">>}, content : {<< >>}]

ReplyItemSeqs == UNION {[1..n -> ReplyItems] : n \in 0..MaxItems}

\* The envelopes of a reply: the one asked for, a document without TEXT
\* and a TEXT alone.
Envelopes == {"document/TEXT", "document", "TEXT"}

\* The tokens of one item, then of a sequence of items.
item_xml(item) ==
    IF item.tag = "text" THEN item.content
    ELSE <<item.tag>>
         \o (IF item.id = None THEN << >> ELSE <<"id=">> \o item.id)
         \o (IF item.original = None THEN << >>
             ELSE <<"original=">> \o escape_attrib(item.original))
         \o <<"/>">>

RECURSIVE items_xml(_)
items_xml(items) ==
    IF items = << >> THEN << >>
    ELSE item_xml(Head(items)) \o items_xml(Tail(items))

reply_xml(envelope, items) ==
    IF envelope = "document/TEXT"
    THEN <<"<document>", "<TEXT>">> \o items_xml(items) \o <<"</TEXT>", "</document>">>
    ELSE IF envelope = "document"
    THEN <<"<document>">> \o items_xml(items) \o <<"</document>">>
    ELSE <<"<TEXT>">> \o items_xml(items) \o <<"</TEXT>">>

\* xml, _ = create_translation_xml(segments)
CreateTranslationXml(segments) ==
    /\ fn.op = "none"
    /\ fn' = [op |-> "create_translation_xml", input |-> "segments",
              segments |-> segments, envelope |-> "document/TEXT", items |-> << >>,
              xml |-> create_translation_xml(segments), text |-> None]
    /\ UNCHANGED <<cache_vars, api_vars, cfg, call_model, pc, cur, result,
                   returned, file, target_file, tasks, project>>

\* The model answers with an envelope of its own.
ModelReplies(envelope, items) ==
    /\ fn.op = "none"
    /\ fn' = [op |-> "reply", input |-> "reply",
              segments |-> << >>, envelope |-> envelope, items |-> items,
              xml |-> reply_xml(envelope, items), text |-> None]
    /\ UNCHANGED <<cache_vars, api_vars, cfg, call_model, pc, cur, result,
                   returned, file, target_file, tasks, project>>

\* reconstruct_from_xml(xml); text is ParseError when it raises.
ReconstructFromXml ==
    /\ fn.op \in {"create_translation_xml", "reply"}
    /\ fn' = [fn EXCEPT !.op = "reconstruct_from_xml",
                        !.text = reconstruct_from_xml(fn.xml)]
    /\ UNCHANGED <<cache_vars, api_vars, cfg, call_model, pc, cur, result,
                   returned, file, target_file, tasks, project>>

NextXml ==
    \/ /\ fn = NoCall
       /\ \E segments \in SegmentStreams : CreateTranslationXml(segments)
    \/ /\ fn = NoCall
       /\ \E envelope \in Envelopes, items \in ReplyItemSeqs :
             ModelReplies(envelope, items)
    \/ ReconstructFromXml

SpecXml == Init /\ [][NextXml]_vars

----------------------------------------------------------------------------
(* extract_translated_from_response on replies of bounded length.         *)

MaxReplyLen == 6      \* tokens of a reply

ReplyTokens == {"<output>", "</output>", "\n", "y"}

Messages == UNION {[1..n -> ReplyTokens] : n \in 0..MaxReplyLen}

\* The model's reply arrives.
MessageArrives(message) ==
    /\ fn.op = "none"
    /\ fn' = [op |-> "message", message |-> message, text |-> None]
    /\ UNCHANGED <<cache_vars, api_vars, cfg, call_model, pc, cur, result,
                   returned, file, target_file, tasks, project>>

\* extract_translated_from_response(message)
ExtractTranslatedFromResponse ==
    /\ fn.op = "message"
    /\ fn' = [fn EXCEPT !.op = "extract_translated_from_response",
                        !.text = extract_translated_from_response(fn.message)]
    /\ UNCHANGED <<cache_vars, api_vars, cfg, call_model, pc, cur, result,
                   returned, file, target_file, tasks, project>>

NextExtract ==
    \/ /\ fn = NoCall
       /\ \E message \in Messages : MessageArrives(message)
    \/ ExtractTranslatedFromResponse

SpecExtract == Init /\ [][NextExtract]_vars

----------------------------------------------------------------------------
(* translate_or_fetch on a cache that holds chunks close to the query.    *)

\* The queries, and the source chunks persisted before them: the scores
\* of ExA are 6/7 against ExB and 4/6 against ExC, the score of ExK
\* against ExL is 7/10, and the other scores are 0.
ExA == <<"a", "b", "c">>
ExB == <<"a", "b", "c", "d">>
ExC == <<"a", "b", "d">>
ExK == <<"k", "k", "k", "k", "k", "k", "k", "p", "p", "p">>
ExL == <<"k", "k", "k", "k", "k", "k", "k", "q", "q", "q">>

ExampleQueries == {ExA, ExK}
ExampleSources == {ExB, ExC, ExL}

ExampleMetas ==
    { [chunk |-> c, src_lang |-> "English", tgt_lang |-> "French",
       doc_type |-> "Other", chunk_type |-> "Other",
       rel_path |-> <<"a.md">>] : c \in ExampleQueries }

NextExample ==
    \/ \E s \in ExampleSources, p \in {<<"a.md">>, <<"b.md">>} :
          /\ pc = "idle"
          /\ PersistPair(s, <<"y">>, "English", "French", p)
    \/ /\ pc = "idle"
       /\ ClearAll("French", <<"a.md">>)
    \/ /\ ops < MaxOps
       /\ \E meta \in ExampleMetas : TranslateOrFetch(meta)
       /\ UNCHANGED file_vars
    \/ ModelReturns(<<"<output>", "y", "</output>">>) /\ UNCHANGED file_vars
    \/ ModelRaises("ApiCallError") /\ UNCHANGED file_vars

SpecExample == Init /\ [][NextExample]_vars

----------------------------------------------------------------------------
(* Claims about clear_missing_chunks, checked under SpecClean *)

\* clear_missing_chunks has just returned.
cleaned_missing == last_op.op = "clear_missing_chunks"

\* The language columns of the table.
LangColumns(corr) == Range(corr.fields) \ {PATH_CHECKSUM_COLUMN}

\* The file <cache>/<lang>/<path_hash>/<name> is among the files bl.
on_disk(bl, lang, path_hash, name) ==
    \E f \in bl : f.lang = lang /\ f.path_hash = path_hash /\ f.name = name

\* C14: after clear_missing_chunks(source_lang) no remaining row cites a
\* chunk file that is missing, in any column, and every chunk file of the
\* source-language directory is cited by the source cell of a remaining row.
C14_NoMissingBlobNoOrphanSource ==
    cleaned_missing =>
        /\ \A i \in 1..Len(correspondence.data_list) :
              \A c \in LangColumns(correspondence) :
                 LET row == correspondence.data_list[i]
                 IN  cell(row, c) # << >> =>
                        on_disk(blobs, c, cell(row, PATH_CHECKSUM_COLUMN), cell(row, c))
        /\ \A f \in blobs :
              f.lang = last_op.source_lang =>
                 \E i \in 1..Len(correspondence.data_list) :
                    LET row == correspondence.data_list[i]
                    IN  /\ cell(row, PATH_CHECKSUM_COLUMN) = f.path_hash
                        /\ cell(row, last_op.source_lang) = f.name

\* A call that met two rows, one of them citing a missing chunk file, and
\* left the other row in the table.
C14_Witness ==
    /\ cleaned_missing
    /\ Len(last_op.before.correspondence.data_list) = 2
    /\ Len(correspondence.data_list) = 1
    /\ \E i \in 1..2 : \E c \in LangColumns(last_op.before.correspondence) :
          LET row == last_op.before.correspondence.data_list[i]
          IN  /\ cell(row, c) # << >>
              /\ ~on_disk(last_op.before.blobs, c, cell(row, PATH_CHECKSUM_COLUMN),
                          cell(row, c))

\* The rows and files clear_missing_chunks met, and its source column.
met_rows == last_op.before.correspondence.data_list
met_files == last_op.before.blobs
met_targets == LangColumns(last_op.before.correspondence) \ {last_op.source_lang}

\* The chunk file cited by column c of a row it met is missing.
cites_missing(row, c) ==
    /\ cell(row, c) # << >>
    /\ ~on_disk(met_files, c, cell(row, PATH_CHECKSUM_COLUMN), cell(row, c))

\* The three reasons for deleting a row.
must_be_deleted(row) ==
    \/ cell(row, last_op.source_lang) = << >>
    \/ cites_missing(row, last_op.source_lang)
    \/ \A c \in met_targets : cell(row, c) = << >> \/ cites_missing(row, c)

\* A row that stays, with exactly its target cells of missing files emptied.
with_missing_cleared(row) ==
    [f \in DOMAIN row |-> IF f \in met_targets /\ cites_missing(row, f)
                          THEN << >> ELSE row[f]]

deleted_rows == {i \in 1..Len(met_rows) : must_be_deleted(met_rows[i])}
cleared_cells ==
    {<<i, c>> \in ((1..Len(met_rows)) \ deleted_rows) \X met_targets :
        cites_missing(met_rows[i], c)}

\* C15: clear_missing_chunks deletes a row iff its source cell is empty, its
\* source chunk file is missing or no target cell would stay non-empty; in
\* every other row it empties exactly the target cells whose file is
\* missing; and its statistics are the numbers of rows deleted, cells
\* emptied and source chunk files deleted.
C15_RowsCellsAndStats ==
    cleaned_missing =>
        /\ correspondence.data_list =
              select_rows([i \in 1..Len(met_rows) |-> with_missing_cleared(met_rows[i])],
                          (1..Len(met_rows)) \ deleted_rows, 1)
        /\ last_op.stats.removed_rows = Cardinality(deleted_rows)
        /\ last_op.stats.removed_rows = Len(met_rows) - Len(correspondence.data_list)
        /\ last_op.stats.cleared_fields = Cardinality(cleared_cells)
        /\ last_op.stats.removed_source_chunks = Cardinality(met_files \ blobs)

\* The call met one row with a source and two targets of which one target
\* file was missing, and reported (0, 1, 0).
C15_Witness ==
    /\ cleaned_missing
    /\ Len(met_rows) = 1
    /\ \A c \in Language : cell(met_rows[1], c) # << >>
    /\ Cardinality({c \in Language : cites_missing(met_rows[1], c)}) = 1
    /\ ~cites_missing(met_rows[1], last_op.source_lang)
    /\ last_op.stats = [removed_rows |-> 0, cleared_fields |-> 1,
                        removed_source_chunks |-> 0]
    /\ Len(correspondence.data_list) = 1

\* The source cell of a remaining row cites the file f.
cited_as_source(f) ==
    \E i \in 1..Len(correspondence.data_list) :
        /\ cell(correspondence.data_list[i], PATH_CHECKSUM_COLUMN) = f.path_hash
        /\ cell(correspondence.data_list[i], last_op.source_lang) = f.name

\* C16: clear_missing_chunks creates no file and deletes only files of the
\* source-language directory that no remaining row cites in its source
\* cell; files of the other language directories all stay.
C16_OnlyOrphanSourceFilesDeleted ==
    cleaned_missing =>
        /\ blobs \subseteq met_files
        /\ \A f \in met_files \ blobs :
              f.lang = last_op.source_lang /\ ~cited_as_source(f)
        /\ \A f \in met_files : f.lang # last_op.source_lang => f \in blobs

\* The call deleted a row whose source file was missing and whose target
\* file existed; the target file is still there.
C16_Witness ==
    /\ cleaned_missing
    /\ \E i \in deleted_rows : \E c \in met_targets :
          /\ cites_missing(met_rows[i], last_op.source_lang)
          /\ cell(met_rows[i], c) # << >>
          /\ on_disk(met_files, c, cell(met_rows[i], PATH_CHECKSUM_COLUMN),
                     cell(met_rows[i], c))
          /\ on_disk(blobs, c, cell(met_rows[i], PATH_CHECKSUM_COLUMN),
                     cell(met_rows[i], c))

----------------------------------------------------------------------------
(* Claims about clear_all, checked under SpecClean *)

\* clear_all(lang, relative_path) has just returned; an absent argument is
\* NoLang or the empty path.
cleared_all(with_lang, with_path) ==
    /\ last_op.op = "clear_all"
    /\ (last_op.lang # NoLang) = with_lang
    /\ (last_op.relative_path # << >>) = with_path

\* The rows and files clear_all met.
rows_before == last_op.before.correspondence.data_list
files_before == last_op.before.blobs

\* The row, or the file, lies under the path clear_all was given.
row_of_path(row) == cell(row, PATH_CHECKSUM_COLUMN) = path_hash_of(last_op.relative_path)
file_of_path(f) == f.path_hash = path_hash_of(last_op.relative_path)

\* The row with the cell of the language emptied.
without_lang(row) ==
    [f \in DOMAIN row |-> IF f = last_op.lang THEN << >> ELSE row[f]]

\* The row holds a checksum in some language column.
has_translation(row) ==
    \E c \in LangColumns(last_op.before.correspondence) : cell(row, c) # << >>

\* The rows of the table, in order, are those at the indices kept of the
\* former rows, each changed by change.
rows_are(kept, change(_)) ==
    correspondence.data_list =
        select_rows([i \in 1..Len(rows_before) |-> change(rows_before[i])], kept, 1)

same_row(row) == row

\* The lookups a caller can make, and those that do not concern (lang, path).
LookupQueries ==
    {calculate_checksum(<<"x">>), calculate_checksum(<<"y">>)}
        \X Language \X Language \X {<<"a.md">>, <<"b.md">>}
other_pair(q) ==
    \/ q[2] # last_op.lang /\ q[3] # last_op.lang
    \/ last_op.relative_path # << >>
         /\ path_hash_of(q[4]) # path_hash_of(last_op.relative_path)
lookups_unchanged ==
    \A q \in LookupQueries :
        other_pair(q) =>
            lookup(correspondence, blobs, q[1], q[2], q[3], q[4])
              = lookup(last_op.before.correspondence, files_before, q[1], q[2], q[3], q[4])

\* C17 (language and path): only the files of <cache>/L/<hash(P)>/ are
\* deleted and only the L cell of the rows of P is emptied; a row of P
\* left without any checksum is dropped.
C17_LangAndPath ==
    cleared_all(TRUE, TRUE) =>
        /\ blobs = {f \in files_before : ~(f.lang = last_op.lang /\ file_of_path(f))}
        /\ rows_are({i \in 1..Len(rows_before) :
                        \/ ~row_of_path(rows_before[i])
                        \/ has_translation(without_lang(rows_before[i]))},
                    LAMBDA row : IF row_of_path(row) THEN without_lang(row) ELSE row)
        /\ lookups_unchanged

\* C17 (language alone): every file of <cache>/L/ is deleted, the L cell of
\* every row is emptied and the rows left without any checksum are dropped.
C17_LangOnly ==
    cleared_all(TRUE, FALSE) =>
        /\ blobs = {f \in files_before : f.lang # last_op.lang}
        /\ rows_are({i \in 1..Len(rows_before) :
                        has_translation(without_lang(rows_before[i]))},
                    without_lang)
        /\ lookups_unchanged

C18_PathOnly ==
    cleared_all(FALSE, TRUE) =>
        /\ blobs = {f \in files_before : ~file_of_path(f)}
        /\ rows_are({i \in 1..Len(rows_before) : ~row_of_path(rows_before[i])},
                    same_row)

\* C18 (neither): every chunk file is deleted and every row is dropped.
C18_Everything ==
    cleared_all(FALSE, FALSE) =>
        /\ blobs = {}
        /\ correspondence.data_list = << >>

\* C18: clear_all with a path alone empties the cache of that path for
\* every language and leaves the other paths alone; with neither argument
\* it empties the whole cache.
C18_ClearAllOfPathOrEverything == C18_PathOnly /\ C18_Everything

\* clear_all(None, P) dropped a row of P and kept a row and a file of
\* another path.
C18_Witness ==
    /\ cleared_all(FALSE, TRUE)
    /\ last_op.stats.removed_rows = 1
    /\ last_op.stats.removed_chunk_files = 2
    /\ Len(correspondence.data_list) = 1
    /\ blobs # {}

\* clear_all() emptied a cache of two rows.
C18_WitnessEverything ==
    /\ cleared_all(FALSE, FALSE)
    /\ last_op.stats.removed_rows = 2
    /\ blobs = {}

----------------------------------------------------------------------------
(* Claim about the keyword of `cache clear --all`, checked under SpecCli *)

\* keyword occurs in text as a substring (case-sensitive).
contains(text, keyword) ==
    \E k \in 0..(Len(text) - Len(keyword)) :
        SubSeq(text, k + 1, k + Len(keyword)) = keyword

\* The source chunk of a row (its English chunk file) holds the keyword.
source_chunk_contains(row, files, keyword) ==
    \E f \in files :
        /\ f.lang = "English"
        /\ f.path_hash = cell(row, PATH_CHECKSUM_COLUMN)
        /\ f.name = cell(row, "English")
        /\ contains(f.contents, keyword)

\* The chunk files a row cites.
files_of_row(row, files) ==
    {f \in files : /\ f.path_hash = cell(row, PATH_CHECKSUM_COLUMN)
                   /\ f.lang \in DOMAIN row
                   /\ f.name = cell(row, f.lang)}

\* C19: when `cache clear --all` is given a keyword, the rows whose source
\* chunk does not contain the keyword, and the chunk files they cite, are
\* left as they were.
C19_KeywordRestrictsClearAll ==
    (/\ last_op.op = "cache clear --all"
     /\ "before" \in DOMAIN last_op
     /\ last_op.keyword # None) =>
        \A i \in 1..Len(last_op.before.correspondence.data_list) :
            LET row == last_op.before.correspondence.data_list[i]
            IN  ~source_chunk_contains(row, last_op.before.blobs, last_op.keyword) =>
                   /\ \E j \in 1..Len(correspondence.data_list) :
                         correspondence.data_list[j] = row
                   /\ files_of_row(row, last_op.before.blobs) \subseteq blobs

----------------------------------------------------------------------------
(* Claim about the cache rebuilder, checked under SpecRebuild *)

rebuilt == last_op.op = "sync_translation_cache"

\* The target chunk carries the checksum of a chunk of the source file.
matches_source(chunk, source) ==
    \E i \in 1..Len(source) : chunk.src_checksum = calculate_checksum(source[i].source)

\* One pair for each matching target chunk from chunk i on, in order.
RECURSIVE expected_pairs(_, _, _)
expected_pairs(source, target, i) ==
    IF i > Len(target) THEN << >>
    ELSE (IF matches_source(target[i], source)
          THEN << [src_checksum |-> target[i].src_checksum,
                   src_text |-> CHOOSE s \in RebuildSrcTexts :
                                   calculate_checksum(s) = target[i].src_checksum,
                   tgt_text |-> target[i].source] >>
          ELSE << >>)
         \o expected_pairs(source, target, i + 1)

\* The rebuilder recovered one pair for each target chunk whose
\* src_checksum is the checksum of a source chunk, and called no model.
recovers_matching_chunks ==
    /\ last_op.recovered_pairs = expected_pairs(last_op.source, last_op.target, 1)
    /\ call_model = "_dont_call_model"

\* The cache answers the k-th recovered pair: the row of its source
\* checksum names the checksum of its target text.
pair_found(k) ==
    LET pair == last_op.recovered_pairs[k]
    IN  find_correspondent_checksum(correspondence, calculate_checksum(pair.src_text),
                                    "English", "French", path_hash_of(FileRelPath))
          = calculate_checksum(pair.tgt_text)

\* The chunk file of the target text of the k-th recovered pair holds it.
target_blob_holds(k) ==
    LET pair == last_op.recovered_pairs[k]
    IN  \E f \in blobs :
           /\ f.lang = "French"
           /\ f.path_hash = path_hash_of(FileRelPath)
           /\ f.name = calculate_checksum(pair.tgt_text)
           /\ f.contents = pair.tgt_text

\* No later recovered pair has the source checksum of the k-th.
last_for_its_source(k) ==
    \A m \in (k + 1)..Len(last_op.recovered_pairs) :
        last_op.recovered_pairs[m].src_checksum # last_op.recovered_pairs[k].src_checksum

\* C20 as stated: the rebuilder recovers one pair for each target chunk
\* whose src_checksum is the checksum of a source chunk and skips the
\* others; once the pairs are persisted, find_correspondent of each
\* recovered pair's source checksum is the checksum of its target text and
\* the target chunk file holds that text.
C20_EveryRecoveredPairFound ==
    (rebuilt /\ last_op.doc_type # "Other") =>
        /\ recovers_matching_chunks
        /\ \A k \in 1..Len(last_op.recovered_pairs) : pair_found(k) /\ target_blob_holds(k)

\* C20, amended: the target chunk file of every recovered pair holds its
\* text, and find_correspondent answers the pair recovered last for each
\* source checksum.
C20_LastRecoveredPairFound ==
    (rebuilt /\ last_op.doc_type # "Other") =>
        /\ recovers_matching_chunks
        /\ \A k \in 1..Len(last_op.recovered_pairs) :
              /\ target_blob_holds(k)
              /\ last_for_its_source(k) => pair_found(k)

\* A rebuild that recovered the pairs of two different source chunks and
\* skipped nothing, on a cache that held another translation of one of them.
C20_Witness ==
    /\ rebuilt
    /\ Len(last_op.target) = 2
    /\ Len(last_op.recovered_pairs) = 2
    /\ last_op.recovered_pairs[1].src_checksum # last_op.recovered_pairs[2].src_checksum
    /\ pair_found(1) /\ pair_found(2)
    /\ ops > 1

\* A rebuild that skipped a target chunk whose src_checksum is unknown.
C20_WitnessSkipped ==
    /\ rebuilt
    /\ Len(last_op.target) = 2
    /\ Len(last_op.recovered_pairs) = 1
    /\ \E i \in 1..2 :
          /\ last_op.target[i].src_checksum # << >>
          /\ ~matches_source(last_op.target[i], last_op.source)

\* The rebuild that has just returned was a repetition over the same files.
rebuilt_again == rebuilt /\ last_op.run > 1

\* C21: running the rebuild again over the same source and target files
\* leaves the correspondence table, the chunk files and the path map as
\* the run before left them.
C21_RebuildIdempotent ==
    rebuilt_again =>
        /\ correspondence = last_op.before.correspondence
        /\ blobs = last_op.before.blobs
        /\ path_map = last_op.before.path_map

\* A second rebuild that persisted two pairs of the same source chunk with
\* different target texts, and one of another chunk.
C21_Witness ==
    /\ rebuilt_again
    /\ Len(last_op.recovered_pairs) = 2
    /\ last_op.recovered_pairs[1].src_checksum = last_op.recovered_pairs[2].src_checksum
    /\ last_op.recovered_pairs[1].tgt_text # last_op.recovered_pairs[2].tgt_text
    /\ Len(correspondence.data_list) = 1

\* The round trip of a segment stream has just been computed.
round_trip == fn.op = "reconstruct_from_xml" /\ fn.input = "segments"

\* C22: for every stream of text and placeholder segments,
\* reconstruct_from_xml(create_translation_xml(segments)) is the
\* concatenation of the contents of the segments, in order.
C22_RoundTripIsConcatenation ==
    round_trip => fn.text = joined(fn.segments)


\* reconstruct_from_xml has just been applied to a reply of the model.
reply_read == fn.op = "reconstruct_from_xml" /\ fn.input = "reply"

\* What a part of the reply stands for: its text, or the original of a PH.
part_text(item) ==
    IF item.tag = "text" THEN item.content
    ELSE IF item.tag = "<PH" /\ item.original # None THEN item.original
    ELSE << >>

RECURSIVE parts_text(_)
parts_text(items) ==
    IF items = << >> THEN << >>
    ELSE part_text(Head(items)) \o parts_text(Tail(items))

\* C23: reconstruct_from_xml does not raise on a reply whose PH elements
\* are renumbered, dropped, reordered or without original, or that holds
\* unknown child tags: each PH with an original is replaced by it whatever
\* its id, the other elements are skipped, and an envelope without a TEXT
\* child gives the empty string.
C23_ReplyDeviationsTolerated ==
    reply_read =>
        /\ fn.text # ParseError
        /\ fn.envelope = "document/TEXT" => fn.text = parts_text(fn.items)
        /\ fn.envelope # "document/TEXT" => fn.text = << >>

\* A reply whose first PH has an id no placeholder was given, followed by
\* a PH without original.
C23_Witness ==
    /\ reply_read
    /\ fn.envelope = "document/TEXT"
    /\ Len(fn.items) = 2
    /\ fn.items[1] = [tag |-> "<PH", id |-> <<"7">>, original |-> <<"<">>, content |-> << >>]
    /\ fn.items[2] = [tag |-> "<PH", id |-> <<"1">>, original |-> None, content |-> << >>]
    /\ fn.text = <<"<">>

\* A reply without a TEXT child that holds a PH with an original.
C23_WitnessNoText ==
    /\ reply_read
    /\ fn.envelope = "document"
    /\ \E k \in 1..Len(fn.items) : part_text(fn.items[k]) # << >>
    /\ fn.text = << >>

\* The extraction has just been applied to a reply.
extracted == fn.op = "extract_translated_from_response"

\* Position k of the message lies after an <output> tag that no </output>
\* has closed yet.
in_output(message, k) ==
    \E s \in 1..(k - 1) :
        /\ message[s] = "<output>"
        /\ \A j \in (s + 1)..k : message[j] # "</output>"

\* Position k lies in an <output>...</output> span: the tag is closed.
in_closed_output(message, k) ==
    /\ in_output(message, k)
    /\ \E e \in (k + 1)..Len(message) : message[e] = "</output>"

\* Position k holds the newline that directly follows the opening tag of
\* a span.
leading_newline(message, k) ==
    /\ message[k] = "\n"
    /\ k > 1
    /\ message[k - 1] = "<output>"
    /\ ~in_output(message, k - 1)

\* The tokens of the message at the positions from k on that keep(_)
\* accepts, in order.
RECURSIVE tokens_at(_, _, _)
tokens_at(message, keep(_), k) ==
    IF k > Len(message) THEN << >>
    ELSE (IF keep(k) THEN <<message[k]>> ELSE << >>) \o tokens_at(message, keep, k + 1)

spans_and_open_end(message) ==
    LET keep(k) == in_output(message, k) /\ ~leading_newline(message, k)
    IN  tokens_at(message, keep, 1)

closed_spans(message) ==
    LET keep(k) == in_closed_output(message, k) /\ ~leading_newline(message, k)
    IN  tokens_at(message, keep, 1)

\* C24 as stated: the extraction returns the contents of the
\* <output>...</output> spans of the reply, in order, each without one
\* leading newline, and the empty string for a reply without <output>.
C24_ClosedSpansExtracted ==
    extracted => fn.text = closed_spans(fn.message)

\* C24: the extraction returns, in order, the contents of the
\* <output>...</output> spans of the reply and what follows a last <output>
\* that is never closed, each without one leading newline; it returns the
\* empty string for a reply without <output>, and a text for every reply.
C24_SpansAndOpenEndExtracted ==
    extracted =>
        /\ fn.text = spans_and_open_end(fn.message)
        /\ fn.text # None
        /\ find(fn.message, "<output>", 1) = 0 => fn.text = << >>

\* A reply with a span and, after it, an <output> that is not closed, the
\* content of which starts with a newline.
C24_Witness ==
    /\ extracted
    /\ fn.message = <<"<output>", "y", "</output>", "<output>", "\n", "y">>
    /\ fn.text = <<"y", "y">>

\* register_path_hash has just been called.
registered == last_op.op = "register_path_hash"

\* The normalized path and the checksum of the call.
registered_path == normalize_relative_path(last_op.relative_path)
registered_hash == calculate_path_checksum(registered_path)

\* The rows of a path map that record the path, and the checksum.
path_recorded(pm, path) == \E i \in 1..Len(pm) : pm[i].relative_path = path
hash_recorded(pm, hash) == \E i \in 1..Len(pm) : pm[i].path_checksum = hash

\* The outcome of a registration, case by case.
C25_RegistrationOutcome ==
    registered =>
        /\ path_recorded(last_op.before, registered_path) =>
              (path_map = last_op.before /\ ~last_op.raised)
        /\ ~hash_recorded(last_op.before, registered_hash) =>
              /\ ~last_op.raised
              /\ path_map = Append(last_op.before,
                                   [path_checksum |-> registered_hash,
                                    relative_path |-> registered_path])
        /\ (hash_recorded(last_op.before, registered_hash)
              /\ ~path_recorded(last_op.before, registered_path)) =>
              (last_op.raised /\ path_map = last_op.before)

\* No two rows of the path map share a checksum or a path.
C25_Injective ==
    \A i, j \in 1..Len(path_map) :
        (path_map[i].path_checksum = path_map[j].path_checksum
           \/ path_map[i].relative_path = path_map[j].relative_path) => i = j

\* C25: registering a registered path changes nothing; registering a new
\* path appends exactly its row; registering a path whose checksum is
\* recorded for another path raises and changes nothing; no operation of
\* the cache removes or rewrites a row of the path map; and the map is
\* injective.
C25_PathMapAppendOnlyInjective ==
    /\ [](C25_RegistrationOutcome /\ C25_Injective)
    /\ [][/\ Len(path_map') >= Len(path_map)
          /\ \A i \in 1..Len(path_map) : path_map'[i] = path_map[i]]_vars

\* A registration that raised on a collision, after the cache of the
\* recorded path was cleared.
C25_Witness ==
    /\ registered
    /\ last_op.raised
    /\ last_op.relative_path = COLLIDING_PATH
    /\ Len(path_map) = 2
    /\ correspondence.exists
    /\ correspondence.data_list = << >>

\* The events at the caller obey the cooldown rule: a cooldown follows
\* each call that returned, and nothing else.
cooled_down(events) ==
    /\ \A k \in 1..Len(events) :
          events[k] = "caller.call returns" =>
              (k < Len(events) /\ events[k + 1] = "caller.wait_cooldown")
    /\ \A k \in 1..Len(events) :
          events[k] = "caller.wait_cooldown" =>
              (k > 1 /\ events[k - 1] = "caller.call returns")

\* The calls among the events.
calls_of(events) ==
    Cardinality({k \in 1..Len(events) : events[k] # "caller.wait_cooldown"})

\* The chunk is white space alone.
whitespace_only(chunk) == \A k \in 1..Len(chunk) : chunk[k] \in {" ", "\n", "\r", "\t"}

\* C26: wait_cooldown is invoked once after each model call that returned,
\* before translate_or_fetch goes on, never after a model call that raised,
\* and never for a cache hit, a chunk of white space or a chunk of
\* placeholders alone.
C26_CooldownAfterEachSuccessfulCall ==
    /\ pc # "idle" => cooled_down(cur.events)
    /\ result.status \in {"ok", "failed"} =>
          /\ cooled_down(result.events)
          /\ calls_of(result.events) = result.calls
          /\ (result.status = "ok" /\ result.calls > 0) =>
                /\ result.events[Len(result.events)] = "caller.wait_cooldown"
                /\ Cardinality({k \in 1..Len(result.events) :
                                   result.events[k] = "caller.wait_cooldown"}) = 1
          /\ (result.status = "failed" /\ result.cause # "ParseError") =>
                \A k \in 1..Len(result.events) : result.events[k] = "caller.call raises"
    /\ (/\ result.status = "ok"
        /\ \/ result.hit
           \/ whitespace_only(result.meta.chunk)
           \/ chunk_contains_ph_only(result.meta.chunk, result.meta.chunk_type)) =>
          result.events = << >>

\* A call that returned after one overloaded model call and one that
\* answered.
C26_Witness ==
    /\ result.status = "ok"
    /\ result.events = <<"caller.call raises", "caller.call returns",
                         "caller.wait_cooldown">>

\* C27: translate_or_fetch on a chunk of white space returns the chunk as
\* it is, calls no model and writes nothing to the cache: no chunk file, no
\* row, no path.
C27_WhitespacePassesThrough ==
    [][(/\ pc = "idle" /\ pc' = "idle"
        /\ ops' = ops + 1
        /\ whitespace_only(result'.meta.chunk)) =>
           /\ result'.status = "ok"
           /\ result'.text = result'.meta.chunk
           /\ result'.calls = 0
           /\ result'.events = << >>
           /\ ~result'.hit
           /\ UNCHANGED cache_vars]_vars

\* A call for a chunk of white space, under the plain strategy, on a cache
\* that holds a translation.
C27_Witness ==
    /\ pc = "idle"
    /\ result.status = "ok"
    /\ result.meta.chunk = <<" ">>
    /\ result.meta.doc_type = "Other"
    /\ result.text = <<" ">>
    /\ result.before.blobs # {}
    /\ blobs = result.before.blobs
    /\ correspondence = result.before.correspondence

\* The needs_review tag of a kind of file.
needs_review_tag(kind) ==
    IF kind = "notebook" THEN <<"tags", "needs_review">> ELSE <<"needs_review", "True">>

\* Cell k of the target file carries the review metadata of cell k of the
\* source file.
carries_review_metadata(k) ==
    /\ needs_review_tag(file.kind) \in target_file.cells[k].metadata
    /\ \A p \in target_file.cells[k].metadata :
          p[1] = "src_checksum" => p[2] = calculate_checksum(file.source[k].source)
    /\ \E p \in target_file.cells[k].metadata : p[1] = "src_checksum"

\* C28: every cell of a written target file carries src_checksum, the
\* checksum of the source text of the cell, and the needs_review tag,
\* whether its text came from the model, from the cache or is the source
\* text left after a failure.
C28_TargetCellsCarryReviewMetadata ==
    target_file.exists =>
        /\ Len(target_file.cells) = Len(file.source)
        /\ \A k \in 1..Len(target_file.cells) : carries_review_metadata(k)

\* A target file written by a second translation in which the first cell
\* failed and the second came from the cache.
C28_Witness ==
    /\ file.status = "written"
    /\ file.run = 2
    /\ target_file.exists
    /\ Len(target_file.cells) = 2
    /\ file.log = <<<<"start", 1>>, <<"failed", 1>>, <<"start", 2>>, <<"end", 2>>>>
    /\ result.status = "ok"
    /\ result.hit
    /\ target_file.cells[1].source = file.source[1].source
    /\ target_file.cells[2].source # file.source[2].source

\* A target file whose cell was translated by the model.
C28_WitnessModel ==
    /\ file.status = "written"
    /\ target_file.exists
    /\ Len(target_file.cells) = 1
    /\ result.status = "ok"
    /\ result.calls = 1
    /\ target_file.cells[1].source = result.text

\* The last call of translate_or_fetch asked the example retriever.
retriever_asked ==
    /\ result.status \in {"ok", "failed"}
    /\ ~whitespace_only(result.meta.chunk)
    /\ result.status = "ok" => ~result.hit

\* The source chunk files of the query's own path, as the call found them.
own_path_hash == path_hash_of(result.meta.rel_path)

own_sources ==
    {f \in result.before.blobs :
        f.lang = result.meta.src_lang /\ f.path_hash = own_path_hash}

score_of(f) == diff_score(universal_newlines(f.contents), result.meta.chunk)

best_scoring(f) ==
    /\ f \in own_sources
    /\ score_of(f).num > 0
    /\ \A g \in own_sources :
          score_of(g).num * score_of(f).den <= score_of(f).num * score_of(g).den

\* The cache held the translation tgt of the chunk file f.
cached_target(f, tgt) ==
    \E k \in 1..Len(result.before.correspondence.data_list) :
        LET row == result.before.correspondence.data_list[k]
        IN  /\ row[PATH_CHECKSUM_COLUMN] = own_path_hash
            /\ cell(row, result.meta.src_lang) = f.name
            /\ cell(row, result.meta.tgt_lang) # << >>
            /\ \E g \in result.before.blobs :
                  /\ g.lang = result.meta.tgt_lang
                  /\ g.path_hash = own_path_hash
                  /\ g.name = cell(row, result.meta.tgt_lang)
                  /\ universal_newlines(g.contents) = tgt

\* C29: the retriever returns a pair only of a best-scoring source chunk
\* of the query's own path whose translation is cached, and nothing when
\* a best-scoring chunk has none; the example is attached only when its
\* score is above 0.7.
C29_ExampleFromOwnPathAboveThreshold ==
    /\ retriever_asked =>
          LET ex == result.example.retrieved
          IN  /\ ex.found =>
                    \E f \in own_sources :
                        /\ best_scoring(f)
                        /\ universal_newlines(f.contents) = ex.src
                        /\ score_of(f) = ex.score
                        /\ cached_target(f, ex.tgt)
              /\ ~ex.found =>
                    \/ \A f \in own_sources : score_of(f).num = 0
                    \/ \E f \in own_sources :
                          best_scoring(f) /\ \A g \in result.before.blobs :
                                                ~cached_target(f, universal_newlines(g.contents))
              /\ result.example.attached <=>
                    (ex.found /\ 10 * ex.score.num > 7 * ex.score.den)
              /\ result.example.attached =>
                    (result.example.ex_src = ex.src /\ result.example.ex_tgt = ex.tgt)
    /\ (result.status \in {"ok", "failed"} /\ ~retriever_asked) =>
          ~result.example.attached

\* An example of score 6/7 was attached while another path held the same
\* chunk.
C29_Witness ==
    /\ retriever_asked
    /\ result.example.attached
    /\ result.example.ex_src = ExB
    /\ result.example.retrieved.score = [num |-> 6, den |-> 7]
    /\ \E g \in result.before.blobs : g.path_hash # own_path_hash

\* An example of score 4/6 was found and not attached, while another path
\* held a closer chunk.
C29_WitnessOtherPath ==
    /\ retriever_asked
    /\ result.example.retrieved.found
    /\ result.example.retrieved.src = ExC
    /\ ~result.example.attached
    /\ \E g \in result.before.blobs :
          /\ g.path_hash # own_path_hash
          /\ g.lang = "English"
          /\ g.contents = ExB

\* An example of score 7/10 exactly was found and not attached.
C29_WitnessThreshold ==
    /\ retriever_asked
    /\ result.example.retrieved.found
    /\ result.example.retrieved.score = [num |-> 14, den |-> 20]
    /\ ~result.example.attached

\* Nothing was returned because the closest chunk had lost its
\* translation, though another chunk of the path had one.
C29_WitnessNoTarget ==
    /\ retriever_asked
    /\ ~result.example.retrieved.found
    /\ \E f \in own_sources : best_scoring(f)
    /\ \E f \in own_sources : score_of(f).num > 0 /\ cached_target(f, <<"y">>)

\* The step ends a call of translate_or_fetch in which the cache raised.
cache_raised_in_step ==
    /\ pc' = "idle"
    /\ pc = "calling" \/ ops' = ops + 1
    /\ result'.status \in {"failed", "error"}
    /\ result'.cause = "OSError"

\* C30: an error the cache raises during the lookup or the persist of
\* translate_or_fetch leaves it as it is, not as ChunkTranslationFailed, and
\* the loop over the cells of the file does not handle it: the
\* translation of the file ends with the error, the cell is not marked as
\* untranslated and no target file is written.
C30_CacheErrorsPropagate ==
    /\ [](result.status = "failed" => result.cause # "OSError")
    /\ [](file.status = "written" =>
             \A k \in 1..Len(file.log) : file.log[k][1] # "raised")
    /\ [][cache_raised_in_step =>
             /\ result'.status = "error"
             /\ result'.point \in {"lookup", "persist_pair"}
             /\ file'.status = "aborted"
             /\ file'.log[Len(file'.log)] = <<"raised", file.i>>
             /\ <<"not-translated-due-to-exception", "True">>
                   \notin file'.cells[file.i].metadata
             /\ UNCHANGED target_file]_vars

\* The translation of a notebook went past a chunk that failed and ended
\* on an error of persist_pair in the next chunk.
C30_Witness ==
    /\ file.status = "aborted"
    /\ file.kind = "notebook"
    /\ file.log = <<<<"start", 1>>, <<"failed", 1>>, <<"start", 2>>, <<"raised", 2>>>>
    /\ result.status = "error"
    /\ result.point = "persist_pair"
    /\ ~target_file.exists

\* The translation of a MyST file ended on an error of the lookup.
C30_WitnessLookup ==
    /\ file.status = "aborted"
    /\ file.kind = "myst"
    /\ result.status = "error"
    /\ result.point = "lookup"
    /\ file.log = <<<<"start", 1>>, <<"raised", 1>>>>

----------------------------------------------------------------------------
(* add_contents_to_cache, step by step, called by two writers at once for  *)
(* one language and one path.                                              *)

MaxAdds == 3          \* calls of add_contents_to_cache in one run

Writers == {1, 2}
RaceLang == "French"
RacePath == <<"a.md">>
RaceTexts == { <<"x", "y">>, <<"z">> }

IdleWriter == [pc |-> "idle", contents |-> None, pos |-> 0, wrote |-> FALSE]

\* The chunk file of a text, as a set (empty: no such file).
file_of(bl, contents) ==
    blob_file(bl, RaceLang, path_hash_of(RacePath), calculate_checksum(contents))

\* The bytes of a chunk file; the empty string when there is no file.
data_of(bl, contents) ==
    IF file_of(bl, contents) = {} THEN << >>
    ELSE (CHOOSE f \in file_of(bl, contents) : TRUE).contents

\* The chunk file of a text holds data.
with_data(bl, contents, data) ==
    (bl \ file_of(bl, contents))
    \cup {[lang |-> RaceLang, path_hash |-> path_hash_of(RacePath),
           name |-> calculate_checksum(contents), contents |-> data]}

\* A writer whose file is in append mode: the byte goes to the end of the file.
written_at_end(data, pos, c) == Append(data, c)

\* write(2) of one byte at the offset of the writer's descriptor: it
\* replaces the byte there, extends the file by it, or leaves a hole of
\* NUL bytes before it when the file was truncated under the writer.
written_at(data, pos, c) ==
    IF pos < Len(data) THEN [data EXCEPT ![pos + 1] = c]
    ELSE data \o [k \in 1..(pos - Len(data)) |-> "NUL"] \o <<c>>

\* add_contents_to_cache(root_path, contents, lang, path_hash) is called.
AddContentsCalled(w, contents) ==
    /\ ops < MaxAdds
    /\ tasks[w].pc \in {"idle", "returned"}
    /\ tasks' = [tasks EXCEPT ![w] = [pc |-> "exists", contents |-> contents,
                                      pos |-> 0, wrote |-> FALSE]]
    /\ ops' = ops + 1
    /\ UNCHANGED <<cache_vars, last_op, lang_roles, cfg, call_model, pc, cur,
                   result, returned, file, target_file, fn, project>>

\* `if os.path.exists(file_path): return checksum`
CheckExists(w) ==
    /\ tasks[w].pc = "exists"
    /\ tasks' = [tasks EXCEPT ![w].pc =
                    IF file_of(blobs, tasks[w].contents) # {} THEN "returned"
                    ELSE "open"]
    /\ UNCHANGED <<cache_vars, api_vars, cfg, call_model, pc, cur,
                   result, returned, file, target_file, fn, project>>

\* `open(file_path, "w")`: the file is created, or cut to no bytes.
OpenForWriting(w) ==
    /\ tasks[w].pc = "open"
    /\ blobs' = with_data(blobs, tasks[w].contents, << >>)
    /\ tasks' = [tasks EXCEPT ![w].pc = "write", ![w].wrote = TRUE]
    /\ UNCHANGED <<path_map, correspondence, api_vars, cfg, call_model, pc, cur,
                   result, returned, file, target_file, fn, project>>

\* `f.write(contents)` and the end of the with block: the text reaches the
\* file in one or more writes, here one per character.
WriteByte(w) ==
    /\ tasks[w].pc = "write"
    /\ tasks[w].pos < Len(tasks[w].contents)
    /\ blobs' = with_data(blobs, tasks[w].contents,
                    written_at(data_of(blobs, tasks[w].contents), tasks[w].pos,
                               tasks[w].contents[tasks[w].pos + 1]))
    /\ tasks' = [tasks EXCEPT ![w].pos = @ + 1]
    /\ UNCHANGED <<path_map, correspondence, api_vars, cfg, call_model, pc, cur,
                   result, returned, file, target_file, fn, project>>

\* `return checksum`
CloseAndReturn(w) ==
    /\ tasks[w].pc = "write"
    /\ tasks[w].pos = Len(tasks[w].contents)
    /\ tasks' = [tasks EXCEPT ![w].pc = "returned"]
    /\ UNCHANGED <<cache_vars, api_vars, cfg, call_model, pc, cur,
                   result, returned, file, target_file, fn, project>>

InitRace ==
    /\ InitCache
    /\ cfg = NoCfg
    /\ call_model = "_dont_call_model"
    /\ pc = "idle"
    /\ cur = [op |-> "none"]
    /\ result = [status |-> "none"]
    /\ returned = {}
    /\ file = NoFile
    /\ target_file = NoTargetFile
    /\ fn = NoCall
    /\ tasks = [w \in Writers |-> IdleWriter]
    /\ project = NoProject

NextRace ==
    \/ \E w \in Writers, contents \in RaceTexts : AddContentsCalled(w, contents)
    \/ \E w \in Writers : CheckExists(w)
    \/ \E w \in Writers : OpenForWriting(w)
    \/ \E w \in Writers : WriteByte(w)
    \/ \E w \in Writers : CloseAndReturn(w)

SpecRace == InitRace /\ [][NextRace]_vars

\* No writer of the text is inside add_contents_to_cache.
no_writer_inside(contents) ==
    \A v \in Writers :
        tasks[v].contents = contents => tasks[v].pc \in {"idle", "returned"}

\* C31: when writers add the same text for the same language and path, in
\* any interleaving of their existence tests and writes, then once they
\* have all returned the chunk file holds exactly that text and its name is
\* the checksum of its contents.
C31_IdenticalWritesRaceHarmlessly ==
    \A w \in Writers :
        (tasks[w].pc = "returned" /\ no_writer_inside(tasks[w].contents)) =>
            /\ file_of(blobs, tasks[w].contents) # {}
            /\ \A f \in file_of(blobs, tasks[w].contents) :
                  /\ f.contents = tasks[w].contents
                  /\ f.name = calculate_checksum(f.contents)

\* Both writers found no file, both opened and wrote the same text, and
\* both have returned.
C31_Witness ==
    /\ \A w \in Writers :
          /\ tasks[w].pc = "returned"
          /\ tasks[w].wrote
          /\ tasks[w].contents = <<"x", "y">>
    /\ ops = 2

----------------------------------------------------------------------------
(* Files translated as cooperative tasks of one event loop.  pc and cur    *)
(* are the position and the locals of the task that runs; the tasks that   *)
(* wait keep theirs in tasks.saved.  The cache operations of a task run    *)
(* from one suspension point to the next without a switch.                 *)

MaxTaskChunks == 1    \* chunks of the file of one task

CoopTasks == {1, 2}
\* The chunks of a source file, in order; a task translates the first ones.
CoopChunks == << <<"x">>, <<"w">> >>
CoopReplies == { <<"<output>", "y", "</output>">>, <<"<output>", "v", "</output>">> }

\* The file of a task: its path, its target language, its chunks.
FilePlans ==
    [rel_path : { <<"a.md">>, <<"b.md">> }, tgt_lang : {"French", "German"},
     chunks : {SubSeq(CoopChunks, 1, Min(n, Len(CoopChunks))) : n \in 1..MaxTaskChunks}]

\* The Meta of each chunk of a file, in order.
metas_of(plan) ==
    [k \in 1..Len(plan.chunks) |->
        [chunk |-> plan.chunks[k], src_lang |-> "English",
         tgt_lang |-> plan.tgt_lang, doc_type |-> "Other", chunk_type |-> "Other",
         rel_path |-> plan.rel_path]]

\* The awaits at which the event loop may run another task: the model call
\* (line 242) and asyncio.sleep (line 281).
suspended_at(p) == p \in {"calling", "sleeping"}

\* The task that runs has translated every chunk of its file.
task_finished == pc = "idle" /\ tasks.todo[tasks.running] = << >>

\* The event loop resumes task t: the running task is at an await or has
\* finished.
Resume(t) ==
    /\ t # tasks.running
    /\ suspended_at(pc) \/ task_finished
    /\ tasks.saved[t].pc # "idle" \/ tasks.todo[t] # << >>
    /\ tasks' = [tasks EXCEPT !.running = t,
                              !.saved[tasks.running] = [pc |-> pc, cur |-> cur],
                              !.preempted =
                                  IF suspended_at(pc) THEN @ \cup {tasks.running}
                                  ELSE @]
    /\ pc' = tasks.saved[t].pc
    /\ cur' = tasks.saved[t].cur
    /\ UNCHANGED <<cache_vars, api_vars, cfg, call_model, result, returned,
                   file, target_file, fn, project>>

\* The running task hands the next chunk of its file to translate_or_fetch.
TaskTranslateChunk ==
    /\ tasks.todo[tasks.running] # << >>
    /\ TranslateOrFetch(Head(tasks.todo[tasks.running]))
    /\ tasks' = [tasks EXCEPT !.todo[tasks.running] = Tail(@)]
    /\ UNCHANGED <<file, target_file, fn, project>>

InitCoop ==
    /\ InitCache
    /\ cfg = ChunkTranslator(2, 1, 1)
    /\ call_model = "_dont_call_model"
    /\ pc = "idle"
    /\ cur = Idle
    /\ result = [status |-> "none"]
    /\ returned = {}
    /\ file = NoFile
    /\ target_file = NoTargetFile
    /\ fn = NoCall
    /\ \E plans \in [CoopTasks -> FilePlans] :
          tasks = [running |-> 1,
                   todo |-> [t \in CoopTasks |-> metas_of(plans[t])],
                   saved |-> [t \in CoopTasks |-> [pc |-> "idle", cur |-> Idle]],
                   preempted |-> {}]
    /\ project = NoProject

NextCoop ==
    \/ \E t \in CoopTasks : Resume(t)
    \/ TaskTranslateChunk
    \/ \E raw \in CoopReplies : ModelReturns(raw) /\ UNCHANGED file_vars
    \/ \E error \in Errors : ModelRaises(error) /\ UNCHANGED file_vars
    \/ BackoffElapsed /\ UNCHANGED file_vars

SpecCoop == InitCoop /\ [][NextCoop]_vars

\* Every task has finished its file.
all_tasks_finished ==
    /\ pc = "idle"
    /\ \A t \in CoopTasks : tasks.todo[t] = << >>
    /\ \A t \in CoopTasks \ {tasks.running} : tasks.saved[t].pc = "idle"

\* The chunk of a call that returned is retrievable by lookup.
retrievable(meta) ==
    lookup(correspondence, blobs, calculate_checksum(meta.chunk),
           meta.src_lang, meta.tgt_lang, meta.rel_path) # None

\* C32: files translated as cooperative tasks that are suspended at model
\* calls and backoff sleeps only: after all tasks have finished, every
\* chunk translate_or_fetch returned a translation for is retrievable by
\* lookup, and the table has at most one row per path hash and source
\* checksum.
C32_CooperativeTasksLoseNoPair ==
    all_tasks_finished =>
        /\ \A r \in returned : ~strip_is_empty(r.meta.chunk) => retrievable(r.meta)
        /\ one_row_per_checksum("English")

\* Both tasks were suspended at an await while the other ran, each got
\* its chunk translated, and the table holds a row for each of the two files.
C32_Witness ==
    /\ all_tasks_finished
    /\ tasks.preempted = CoopTasks
    /\ Len(Rows) = 2
    /\ Rows[1][PATH_CHECKSUM_COLUMN] # Rows[2][PATH_CHECKSUM_COLUMN]
    /\ Cardinality(returned) = 2

\* Both tasks translated the same chunk of the same file into two
\* languages: one row holds both translations.
C32_WitnessSameRow ==
    /\ all_tasks_finished
    /\ tasks.preempted # {}
    /\ Len(Rows) = 1
    /\ cell(Rows[1], "French") # << >>
    /\ cell(Rows[1], "German") # << >>

----------------------------------------------------------------------------
(* The strategies of STRATEGY_MAP are objects of the module, shared by all *)
(* ChunkTranslators of the process.  Here call_model is the _call_model of *)
(* each strategy, and tasks the position of each translator.               *)

MaxChunkCalls == 3    \* translate_or_fetch calls that reach the strategy

\* `model_caller: LLMCaller | None = None`: the translator has no caller.
NoCaller == "None"

\* Translators and the model caller each was built with.
Translators == {"A", "B", "N"}
caller_of(translator) ==
    IF translator = "A" THEN "caller A"
    ELSE IF translator = "B" THEN "caller B"
    ELSE NoCaller

SharedStrategies == {"PLAIN_STRATEGY", "MD_STRATEGY", "CODE_STRATEGY"}

\* What the model call of an attempt does.
CallOutcomes == {"returns", "ModelOverloadedError", "ApiCallError"}

\* Lines 209-219: `if caller is not None and strategy != CODE_STRATEGY:
\* strategy.set_call_model(f_call_model)`, f_call_model calling `caller`.
set_call_model(slots, strategy, caller) ==
    IF caller # NoCaller /\ strategy # "CODE_STRATEGY"
    THEN [slots EXCEPT ![strategy] = caller]
    ELSE slots

\* TranslateStrategy.run: `raw = self._call_model(prompt)`, an attempt of
\* the translator's _translate_with_retry; the call goes to whatever the
\* strategy holds now.
StrategyRun(translator, strategy, slots, attempt, outcome) ==
    /\ last_op' = [op |-> "strategy.run", translator |-> translator,
                   strategy |-> strategy, attempt |-> attempt,
                   invoked |-> slots[strategy], outcome |-> outcome]
    /\ tasks' = [tasks EXCEPT ![translator] =
                    IF is_retried(outcome) /\ ~gives_up(attempt, cfg.attempts)
                    THEN [pc |-> "sleeping", strategy |-> strategy, attempt |-> attempt]
                    ELSE [pc |-> "idle", strategy |-> "none", attempt |-> 0]]

\* translate_or_fetch of a translator on a chunk the cache does not hold:
\* lines 207-219, then the first attempt of _translate_with_retry.  Nothing
\* awaits between the two.
TranslateMissingChunk(translator, strategy, outcome) ==
    /\ ops < MaxChunkCalls
    /\ tasks[translator].pc = "idle"
    /\ ops' = ops + 1
    /\ call_model' = set_call_model(call_model, strategy, caller_of(translator))
    /\ StrategyRun(translator, strategy,
                   set_call_model(call_model, strategy, caller_of(translator)),
                   1, outcome)
    /\ UNCHANGED <<cache_vars, lang_roles, cfg, pc, cur, result, returned,
                   file, target_file, fn, project>>

\* asyncio.sleep is over: the next attempt of the translator that slept.
RetryAfterSleep(translator, outcome) ==
    /\ tasks[translator].pc = "sleeping"
    /\ StrategyRun(translator, tasks[translator].strategy, call_model,
                   tasks[translator].attempt + 1, outcome)
    /\ UNCHANGED <<cache_vars, ops, lang_roles, cfg, call_model, pc, cur, result,
                   returned, file, target_file, fn, project>>

InitCallers ==
    /\ InitCache
    /\ cfg = ChunkTranslator(2, 1, 1)
    /\ call_model = [s \in SharedStrategies |-> "_dont_call_model"]
    /\ pc = "idle"
    /\ cur = Idle
    /\ result = [status |-> "none"]
    /\ returned = {}
    /\ file = NoFile
    /\ target_file = NoTargetFile
    /\ fn = NoCall
    /\ tasks = [t \in Translators |-> [pc |-> "idle", strategy |-> "none", attempt |-> 0]]
    /\ project = NoProject

NextCallers ==
    \/ \E t \in Translators, s \in SharedStrategies, o \in CallOutcomes :
          TranslateMissingChunk(t, s, o)
    \/ \E t \in Translators, o \in CallOutcomes : RetryAfterSleep(t, o)

SpecCallers == InitCallers /\ [][NextCallers]_vars

\* C33: every call a strategy makes to a model caller on behalf of a
\* translator goes to the caller that translator was built with; a
\* translator built without a caller reaches no caller at all.
C33_CallsGoToOwnCaller ==
    (last_op.op = "strategy.run" /\ last_op.invoked # "_dont_call_model") =>
        last_op.invoked = caller_of(last_op.translator)

----------------------------------------------------------------------------
(* Claim about replies without <output>, checked under SpecTranslate *)

\* The call that has just returned asked the model, whose reply holds no
\* <output> tag.
replied_without_output ==
    /\ result.status = "ok"
    /\ result.raw # None
    /\ find(result.raw, "<output>", 1) = 0

\* C34: a reply of the model without <output> counts as a failed
\* translation: no pair with the empty string as its target is persisted
\* for a chunk that is not empty, and no later call returns the empty
\* string for such a chunk from the cache.
C34_NoOutputIsNotPersisted ==
    /\ replied_without_output =>
          lookup(correspondence, blobs, calculate_checksum(result.meta.chunk),
                 result.meta.src_lang, result.meta.tgt_lang, result.meta.rel_path)
              = None
    /\ (result.status = "ok" /\ result.hit /\ result.meta.chunk # << >>) =>
          result.text # << >>

-----------------------------------------------------------------------------
\* A translated file that holds a chunk written back untranslated, then a
\* rebuild of the cache or a correction run over it, then a new run.

\* _iter_jupyter_target_chunks, `cell.metadata.get("src_checksum")`, and
\* read_chunks_with_metadata of a MyST or LaTeX file: the checksum a
\* written cell carries, << >> if it carries none.
src_checksum_of(c) ==
    IF \E p \in c.metadata : p[1] = "src_checksum"
    THEN (CHOOSE p \in c.metadata : p[1] = "src_checksum")[2]
    ELSE << >>

\* The target file as the rebuilder and the corrector read it: the text
\* and the src_checksum of each cell; no other metadata is read.
read_target_chunks(cells) ==
    [i \in 1..Len(cells) |-> [source |-> cells[i].source,
                              src_checksum |-> src_checksum_of(cells[i])]]

\* analyze_document_type of the file.
doc_type_of(kind) ==
    IF kind = "notebook" THEN "JupyterNotebook"
    ELSE IF kind = "myst" THEN "Markdown" ELSE "LaTeX"

\* The cells of the written target that carry the tag
\* not-translated-due-to-exception.
not_translated_cells(cells) ==
    {i \in 1..Len(cells) :
        <<"not-translated-due-to-exception", "True">> \in cells[i].metadata}

\* sync_translation_cache(root, source file, target file, ...) over the
\* file the loop has written.
RebuildFromTarget ==
    /\ file.status = "written"
    /\ target_file.exists
    /\ pc = "idle"
    /\ SyncTranslationCache(file.source, read_target_chunks(target_file.cells),
                            doc_type_of(file.kind))

\* correct_jupyter_cell / correct_myst_cell / correct_latex_cell: the cell
\* needs a correction when it carries a src_checksum and its text is not
\* the cached translation of that checksum.
needs_correction(corr, c) ==
    /\ c.src_checksum # << >>
    /\ ~do_translation_correspond_to_source(corr, c.src_checksum, "English",
                                            c.source, "French",
                                            path_hash_of(FileRelPath))

\* correct_file_translation over the written file. correct_chunk_translation
\* calls TranslationStoreCsv.get_contents_by_checksum(checksum, lang) with
\* three arguments: the first cell that needs a correction raises
\* TypeError, which is not the IOError the caller wraps. Only the path of
\* the file is registered, by do_translation_correspond_to_source.
CorrectFileTranslation ==
    LET cells == read_target_chunks(target_file.cells)
        checked == {i \in 1..Len(cells) : cells[i].src_checksum # << >>}
        wrong == {i \in 1..Len(cells) : needs_correction(correspondence, cells[i])}
    IN  /\ file.status = "written"
        /\ target_file.exists
        /\ pc = "idle"
        /\ last_op.op # "correct_file_translation"
        /\ path_map' = IF checked = {} THEN path_map
                       ELSE register_path_hash(path_map, FileRelPath)
        /\ last_op' = [op |-> "correct_file_translation",
                       raised |-> IF wrong = {} THEN None ELSE <<"TypeError">>,
                       corrected |-> FALSE,
                       before |-> [path_map |-> path_map,
                                   correspondence |-> correspondence,
                                   blobs |-> blobs]]
        /\ UNCHANGED <<correspondence, blobs, ops, lang_roles, tr_vars>>

\* Files of one chunk are enough for a chunk to fail and to be met again.
ResumeSources(kind) == {s \in SourceFiles(kind) : Len(s) = 1}

NextResume ==
    \/ /\ file.status # "running"
       /\ \E kind \in FileKinds : \E source \in ResumeSources(kind) :
              StartFile(kind, source)
    \/ FileTranslateChunk
    \/ \E raw \in FileReplies : FileModelReturns(raw)
    \/ \E error \in Errors : FileModelRaises(error)
    \/ FileBackoffElapsed
    \/ WriteTarget
    \/ RebuildFromTarget
    \/ CorrectFileTranslation

SpecResume == InitFile /\ [][NextResume]_vars

\* C35: a chunk whose translation failed, written back to the target file
\* with the tag not-translated-due-to-exception, does not become a cache
\* entry by a rebuild of the cache or a correction run over that file: a
\* chunk of such a cell that the cache missed before the run is still
\* missed after it, so that the next run attempts it again.
C35_FailedChunkNeverCached ==
    [][ (/\ last_op'.op \in {"sync_translation_cache", "correct_file_translation"}
         /\ last_op' # last_op)
        => \A i \in not_translated_cells(target_file.cells) :
             LET checksum == src_checksum_of(target_file.cells[i])
             IN  lookup(correspondence, blobs, checksum,
                        "English", "French", FileRelPath) = None
                 => lookup(correspondence', blobs', checksum,
                           "English", "French", FileRelPath) = None ]_vars

\* After the rebuild the next run finds the failed chunk in the cache: the
\* model is not called and the source text is written as the translation.
C35_FailedChunkServedFromCache ==
    /\ file.status = "written"
    /\ file.run = 2
    /\ file.calls = 0
    /\ last_op.op = "sync_translation_cache"
    /\ \E i \in 1..Len(file.cells) :
          /\ file.cells[i].source = file.source[i].source
          /\ file.cells[i].source \in file.completed
          /\ file.log = <<<<"start", i>>, <<"end", i>>>>

-----------------------------------------------------------------------------
\* The frame of set_checksum_pair_in_correspondence_cache.

\* The cells (row, column) of the rows of `before` whose value differs in
\* `after`; a column the row did not have reads as the empty string.
changed_cells(before, after) ==
    {c \in (1..Len(before.data_list)) \X Range(after.fields) :
        \/ c[1] > Len(after.data_list)
        \/ c[2] \notin DOMAIN after.data_list[c[1]]
        \/ after.data_list[c[1]][c[2]] # cell(before.data_list[c[1]], c[2])}

\* The columns of `before` are the first columns of `after`, in the same
\* order.
columns_kept(before, after) ==
    /\ Len(before.fields) <= Len(after.fields)
    /\ SubSeq(after.fields, 1, Len(before.fields)) = before.fields

C36_WitnessAppended ==
    /\ last_op.op = "persist_pair"
    /\ ~last_op.src_row_existed
    /\ last_op.rows_before = 1
    /\ Len(correspondence.data_list) = 2
    /\ Len(correspondence.fields) = 4

-----------------------------------------------------------------------------
\* persist_pair in the steps it takes on the disk, with an interruption (the
\* process is killed, the task is cancelled, a write raises) at any of them.

MaxInterruptCalls == 2

\* Mutation of PersistSteps: the correspondence row is written first.
RowFirstSteps ==
    <<"csv_open", "csv_write", "src_open", "src_write", "tgt_open", "tgt_write">>

\* TranslationCacheCsv.persist_pair after register_path_hash: the source
\* blob, the target blob, then the row. Each file is opened with "w",
\* which creates or empties it, and then written.
PersistSteps ==
    <<"src_open", "src_write", "tgt_open", "tgt_write", "csv_open", "csv_write">>

NotPersisting == [k |-> 0]

\* `with open(file_path, "w") as f`: the file exists and holds nothing yet.
opened_for_writing(bl, contents, lang, path_hash) ==
    (bl \ blob_file(bl, lang, path_hash, calculate_checksum(contents)))
    \cup {[lang |-> lang, path_hash |-> path_hash,
           name |-> calculate_checksum(contents), contents |-> << >>]}

\* `f.write(contents)` and the close of the file.
contents_written(bl, contents, lang, path_hash) ==
    (bl \ blob_file(bl, lang, path_hash, calculate_checksum(contents)))
    \cup {[lang |-> lang, path_hash |-> path_hash,
           name |-> calculate_checksum(contents), contents |-> contents]}

\* `with open(file_path, 'w', newline='') as csvfile` of
\* write_correspondence_cache: the table file is emptied.
csv_opened_for_writing(corr) ==
    [exists |-> TRUE, fields |-> << >>, data_list |-> << >>]

\* persist_pair is called: register_path_hash.
PersistPairCalled(src_text, tgt_text, src_lang, tgt_lang, relative_path) ==
    /\ tasks.k = 0
    /\ ops < MaxInterruptCalls
    /\ ops' = ops + 1
    /\ path_map' = register_path_hash(path_map, relative_path)
    /\ tasks' = [k |-> 1, src_text |-> src_text, tgt_text |-> tgt_text,
                 src_lang |-> src_lang, tgt_lang |-> tgt_lang,
                 path_hash |-> path_hash_of(relative_path),
                 table |-> correspondence,
                 before |-> [correspondence |-> correspondence, blobs |-> blobs]]
    /\ last_op' = [op |-> "persist_pair called"]
    /\ UNCHANGED <<correspondence, blobs, lang_roles, cfg, call_model, pc, cur,
                   result, returned, file, target_file, fn, project>>

\* The next step of the call on the disk.
PersistStep ==
    LET step == PersistSteps[tasks.k]
        side == IF step \in {"src_open", "src_write"}
                THEN [text |-> tasks.src_text, lang |-> tasks.src_lang]
                ELSE [text |-> tasks.tgt_text, lang |-> tasks.tgt_lang]
        exists == blob_file(blobs, side.lang, tasks.path_hash,
                            calculate_checksum(side.text)) # {}
        \* set_checksum_pair_in_correspondence_cache returns at once when
        \* the two languages are equal
        no_row == tasks.src_lang = tasks.tgt_lang
        new_table == set_checksum_pair_in_correspondence_cache(
                        read_correspondence_cache(correspondence, tasks.before.correspondence),
                        calculate_checksum(tasks.src_text), tasks.src_lang,
                        calculate_checksum(tasks.tgt_text), tasks.tgt_lang,
                        tasks.path_hash)
        skipped == \/ step \in {"src_open", "tgt_open"} /\ exists
                   \/ step = "csv_open" /\ no_row
        next_k == IF skipped THEN tasks.k + 2 ELSE tasks.k + 1
    IN  /\ tasks.k \in 1..Len(PersistSteps)
        /\ blobs' = IF step \in {"src_open", "tgt_open"} /\ ~exists
                    THEN opened_for_writing(blobs, side.text, side.lang, tasks.path_hash)
                    ELSE IF step \in {"src_write", "tgt_write"}
                    THEN contents_written(blobs, side.text, side.lang, tasks.path_hash)
                    ELSE blobs
        /\ correspondence' = IF step = "csv_open" /\ ~no_row
                             THEN csv_opened_for_writing(correspondence)
                             ELSE IF step = "csv_write" THEN tasks.table
                             ELSE correspondence
        /\ tasks' = IF next_k > Len(PersistSteps) THEN NotPersisting
                    ELSE IF step = "csv_open"
                    THEN [tasks EXCEPT !.k = next_k, !.table = new_table]
                    ELSE [tasks EXCEPT !.k = next_k]
        /\ last_op' = [op |-> "persist_pair step", step |-> step,
                       returned |-> next_k > Len(PersistSteps)]
        /\ UNCHANGED <<path_map, ops, lang_roles, cfg, call_model, pc, cur,
                       result, returned, file, target_file, fn, project>>

\* The call ends where it is: nothing more of it reaches the disk.
PersistInterrupted ==
    /\ tasks.k \in 1..Len(PersistSteps)
    /\ tasks' = NotPersisting
    /\ last_op' = [op |-> "persist_pair interrupted", step |-> PersistSteps[tasks.k],
                   before |-> tasks.before]
    /\ UNCHANGED <<cache_vars, ops, lang_roles, cfg, call_model, pc, cur,
                   result, returned, file, target_file, fn, project>>

InitInterrupt ==
    /\ InitCache
    /\ cfg = NoCfg
    /\ call_model = "_dont_call_model"
    /\ pc = "idle"
    /\ cur = [op |-> "none"]
    /\ result = [status |-> "none"]
    /\ returned = {}
    /\ file = NoFile
    /\ target_file = NoTargetFile
    /\ fn = NoCall
    /\ tasks = NotPersisting
    /\ project = NoProject

NextInterrupt ==
    \/ /\ tasks.k = 0
       /\ \E s \in SrcTexts, t \in TgtTexts, sl \in {"English", "French"},
             tl \in Language, p \in PersistPaths : PersistPairCalled(s, t, sl, tl, p)
    \/ PersistStep
    \/ PersistInterrupted

SpecInterrupt == InitInterrupt /\ [][NextInterrupt]_vars

\* C37: persist_pair writes the source blob and the target blob before the
\* correspondence row: at every point inside a call, and so after an
\* interruption at that point, every non-empty cell of every row names a
\* blob file that exists under the row's path hash in the directory of the
\* cell's language.
C37_InterruptedPersistKeepsReferences ==
    \A i \in 1..Len(correspondence.data_list) :
        \A f \in Range(correspondence.fields) \ {PATH_CHECKSUM_COLUMN} :
            LET row == correspondence.data_list[i]
            IN  row[f] # << >>
                => blob_file(blobs, f, row[PATH_CHECKSUM_COLUMN], row[f]) # {}

\* A second call was interrupted before it wrote its row, after its blobs:
\* the row of the first call is there and both new blobs exist unreferenced.
C37_Witness ==
    /\ last_op.op = "persist_pair interrupted"
    /\ last_op.step = "csv_open"
    /\ Len(correspondence.data_list) = 1
    /\ Cardinality(blobs) = 4

\* A call was interrupted between emptying the table file and writing it.
C37_WitnessTableEmptied ==
    /\ last_op.op = "persist_pair interrupted"
    /\ last_op.step = "csv_write"
    /\ last_op.before.correspondence.data_list # << >>
    /\ correspondence.data_list = << >>

-----------------------------------------------------------------------------
\* clear_missing_chunks run twice in a row.

\* clear_missing_chunks(root_path, source_lang) called again right after a
\* call with the same source language returned.
ClearMissingChunksAgain ==
    LET after == clear_missing_chunks(correspondence, blobs, last_op.source_lang)
    IN  /\ last_op.op = "clear_missing_chunks"
        /\ correspondence' = after.correspondence
        /\ blobs' = after.blobs
        /\ last_op' = [op |-> "clear_missing_chunks again", stats |-> after.stats,
                       source_lang |-> last_op.source_lang,
                       first |-> last_op.stats,
                       before |-> [correspondence |-> correspondence, blobs |-> blobs]]
        /\ UNCHANGED <<path_map, ops, lang_roles, tr_vars>>

NextCleanTwice ==
    \/ \E sl \in {"English", "French"}, p \in PersistPaths :
          \E tl \in Language \ {sl} : PersistPair(<<"x">>, <<"y">>, sl, tl, p)
    \/ \E f \in blobs : ChunkFileLost(f)
    \/ \E l \in Language : ClearMissingChunks(l)
    \/ ClearMissingChunksAgain

SpecCleanTwice == Init /\ [][NextCleanTwice]_vars

\* C38: clear_missing_chunks is idempotent: a second run right after the
\* first, with nothing in between, reports (0, 0, 0) and changes neither
\* the correspondence table nor any blob file.
C38_ClearMissingChunksIdempotent ==
    last_op.op = "clear_missing_chunks again"
    => /\ last_op.stats = [removed_rows |-> 0, cleared_fields |-> 0,
                           removed_source_chunks |-> 0]
       /\ correspondence = last_op.before.correspondence
       /\ blobs = last_op.before.blobs

\* The second run came after a first run that removed a row and deleted a
\* source chunk, and that left a row.
C38_Witness ==
    /\ last_op.op = "clear_missing_chunks again"
    /\ last_op.first.removed_rows > 0
    /\ last_op.first.removed_source_chunks > 0
    /\ correspondence.data_list # << >>

\* The second run came after a first run that cleared a cell of a row it
\* kept.
C38_WitnessClearedCell ==
    /\ last_op.op = "clear_missing_chunks again"
    /\ last_op.first.cleared_fields > 0
    /\ correspondence.data_list # << >>

-----------------------------------------------------------------------------
(* project_manager.py: the languages and directories of a project *)

MaxProjectCalls == 4

\* The names under the project root that the calls are made with: two
\* directories that exist, a regular file, a name that does not exist, and
\* a directory outside the project root.
ExistingDirs == {"docs", "notes"}
RegularFile == "readme.txt"
MissingDir == "gone"
OutsideDir == "/elsewhere"
NoTgtDir == "None"

\* Language.get_dir_suffix, and the directory add_target_language names
\* for a project called proj: f"{self.config.name}{lang.get_dir_suffix()}".
get_dir_suffix(lang) ==
    IF lang = "French" THEN "proj_fr"
    ELSE IF lang = "English" THEN "proj_en" ELSE "proj_de"

\* Project._get_source_language: None is "None".
get_source_language(config) ==
    IF config.src_dir = << >> THEN "None" ELSE config.src_dir[1].language

\* Project._get_target_languages: [ld.language for ld in lang_dirs].
get_target_languages(config) ==
    [i \in 1..Len(config.lang_dirs) |-> config.lang_dirs[i].language]

\* ProjectConfig.get_target_dir_path_by_lang: the directory of the first
\* entry of the language, "None" without one.
get_target_dir_path_by_lang(config, lang) ==
    LET hits == {i \in 1..Len(config.lang_dirs) : config.lang_dirs[i].language = lang}
    IN  IF hits = {} THEN "None"
        ELSE config.lang_dirs[CHOOSE i \in hits : \A j \in hits : i <= j].path

\* ProjectConfig.set_src_dir_config.
set_src_dir_config(config, dir_path, lang) ==
    [config EXCEPT !.src_dir = <<[path |-> dir_path, language |-> lang]>>]

\* ProjectConfig.add_lang_dir_config: lang_dirs.append.
add_lang_dir_config(config, dir_path, lang) ==
    [config EXCEPT !.lang_dirs = Append(@, [path |-> dir_path, language |-> lang])]

\* Mutation of remove_lang_config: nothing is removed.
keep_lang_config(config, lang) == config

\* ProjectConfig.remove_lang_config: the entries of the language are
\* filtered out.
remove_lang_config(config, lang) ==
    [config EXCEPT !.lang_dirs =
        SelectSeq(@, LAMBDA ld : ld.language # lang)]

\* How the part of a call that follows its checks ends: it returns, the
\* change of the config raises (the directory cannot be analysed), or
\* save_config raises after the config object was changed.
CallEnds == {"returns", "config raises", "save raises"}

\* The call has ended: what it raised ("None" when it returned), the
\* config object and the directories it leaves; `was` is the directory the
\* language had as a target before the call.
ProjectCallEnded(op, lang, dir, raised, config, dirs) ==
    /\ ops < MaxProjectCalls
    /\ ops' = ops + 1
    /\ project' = [project EXCEPT !.config = config, !.dirs = dirs]
    /\ last_op' = [op |-> op, lang |-> lang, dir |-> dir, raised |-> raised,
                   was |-> get_target_dir_path_by_lang(project.config, lang)]
    /\ UNCHANGED <<cache_vars, lang_roles, cfg, call_model, pc, cur, result,
                   returned, file, target_file, fn, tasks>>

\* Project.set_source_directory(dir_name, lang).
SetSourceDirectory(dir_name, lang, ends) ==
    LET config == project.config
        raised ==
            IF dir_name \notin project.dirs \cup {RegularFile}
            THEN "DirectoryDoesNotExistError"
            ELSE IF dir_name = RegularFile THEN "NotADirectoryError"
            ELSE IF get_source_language(config) = lang THEN "LangAlreadyInProjectError"
            ELSE IF \E i \in 1..Len(config.lang_dirs) :
                        get_target_languages(config)[i] = lang
            THEN "LangAlreadyInProjectError"
            ELSE IF ends = "returns" THEN "None" ELSE "AnalyzeDirError"
        changed == raised = "None" \/ (raised = "AnalyzeDirError" /\ ends = "save raises")
    IN  /\ project.loaded
        /\ ProjectCallEnded("set_source_directory", lang, dir_name, raised,
                            IF changed THEN set_src_dir_config(config, dir_name, lang)
                            ELSE config,
                            project.dirs)

\* Project.add_target_language(lang, tgt_dir): with a directory the entry
\* of the language is replaced, without one the directory is created.
AddTargetLanguage(lang, tgt_dir, ends) ==
    LET config == project.config
        src_lang == get_source_language(config)
        lang_dir_path == get_dir_suffix(lang)
        checks ==
            IF src_lang = "None" THEN "NoSourceLanguageError"
            ELSE IF lang = src_lang THEN "LangAlreadyInProjectError"
            ELSE IF tgt_dir # NoTgtDir
            THEN IF tgt_dir \notin project.dirs \cup {RegularFile, OutsideDir}
                 THEN "InvalidPathError"
                 ELSE IF tgt_dir = RegularFile THEN "InvalidPathError"
                 ELSE IF tgt_dir = OutsideDir THEN "InvalidPathError"
                 ELSE "None"
            ELSE IF \E i \in 1..Len(config.lang_dirs) :
                        get_target_languages(config)[i] = lang
            THEN "LangAlreadyInProjectError"
            ELSE IF lang_dir_path \in project.dirs THEN "LangDirExistsError"
            ELSE "None"
        raised == IF checks # "None" THEN checks
                  ELSE IF ends = "returns" THEN "None" ELSE "AddLanguageError"
        removed == IF tgt_dir # NoTgtDir THEN remove_lang_config(config, lang)
                   ELSE config
        added == add_lang_dir_config(removed,
                     IF tgt_dir # NoTgtDir THEN tgt_dir ELSE lang_dir_path, lang)
    IN  /\ project.loaded
        /\ ProjectCallEnded("add_target_language", lang, tgt_dir, raised,
                            IF checks # "None" THEN config
                            ELSE IF ends = "config raises" THEN removed
                            ELSE added,
                            IF checks = "None" /\ tgt_dir = NoTgtDir
                            THEN project.dirs \cup {lang_dir_path}
                            ELSE project.dirs)

\* Project.remove_target_language(lang): the entry is removed, the config
\* saved, then the directory deleted; when save_config or rmtree raises,
\* the entry is gone from the config object and the directory stays.
RemoveTargetLanguage(lang, ends) ==
    LET config == project.config
        target_dir_path == get_target_dir_path_by_lang(config, lang)
        raised == IF target_dir_path = "None" THEN "TargetLanguageNotInProjectError"
                  ELSE IF ends = "returns" THEN "None" ELSE "RemoveLanguageError"
    IN  /\ project.loaded
        /\ ProjectCallEnded("remove_target_language", lang, target_dir_path, raised,
                            IF target_dir_path = "None" THEN config
                            ELSE remove_lang_config(config, lang),
                            IF raised = "None" THEN project.dirs \ {target_dir_path}
                            ELSE project.dirs)

\* init_project: a project named proj with an empty config; the root
\* holds two directories.
NewProject ==
    [loaded |-> TRUE,
     config |-> [src_dir |-> << >>, lang_dirs |-> << >>, translatable_files |-> {}],
     dirs |-> ExistingDirs]

InitProject ==
    /\ InitCache
    /\ cfg = NoCfg
    /\ call_model = "_dont_call_model"
    /\ pc = "idle"
    /\ cur = Idle
    /\ result = [status |-> "none"]
    /\ returned = {}
    /\ file = NoFile
    /\ target_file = NoTargetFile
    /\ fn = NoCall
    /\ tasks = NoTasks
    /\ project = NewProject

NextProject ==
    \/ \E dir_name \in ExistingDirs \cup {RegularFile, MissingDir},
          lang \in Language, ends \in CallEnds :
          SetSourceDirectory(dir_name, lang, ends)
    \/ \E lang \in Language, ends \in CallEnds,
          tgt_dir \in ExistingDirs \cup {RegularFile, MissingDir, OutsideDir, NoTgtDir} :
          AddTargetLanguage(lang, tgt_dir, ends)
    \/ \E lang \in Language, ends \in CallEnds : RemoveTargetLanguage(lang, ends)

SpecProject == InitProject /\ [][NextProject]_vars

\* C40: after any sequence of set_source_directory, add_target_language
\* and remove_target_language calls, returned or rejected, the source
\* language of the project is not among its target languages and each
\* target language has at most one target directory entry.
C40_SourceNotTargetOneDirEach ==
    LET config == project.config
        targets == get_target_languages(config)
    IN  /\ \A i \in 1..Len(targets) : targets[i] # get_source_language(config)
        /\ \A i, j \in 1..Len(targets) : targets[i] = targets[j] => i = j

\* add_target_language has returned for a language that was a target
\* already, with another directory, while another language is a target
\* too: the entry of the language has been replaced.
C40_Witness ==
    /\ last_op.op = "add_target_language"
    /\ last_op.raised = "None"
    /\ last_op.was \notin {"None", last_op.dir}
    /\ Len(project.config.lang_dirs) = 2
    /\ get_target_dir_path_by_lang(project.config, last_op.lang) = last_op.dir

-----------------------------------------------------------------------------
(* translate_single_file: the checks before the translation of a file *)

\* Files as (directory, name): the file the loop translates, a file of the
\* source directory that is not marked translatable, and a path that
\* names no file.
FileA == <<"docs", "a.md">>
FileB == <<"docs", "b.md">>
MissingFile == <<"docs", "gone.md">>

\* Project.set_file_translatability / ProjectConfig.make_file_translatable
\* with translatable = True.
make_file_translatable(config, path) ==
    [config EXCEPT !.translatable_files = @ \cup {path}]

\* Mutation of get_translatable_files: every file counts as translatable.
every_file_translatable(config) == {FileA, FileB, MissingFile}

\* Project.get_translatable_files.
get_translatable_files(config) == config.translatable_files

\* `file_path.relative_to(src_dir_root_path)` does not raise ValueError.
is_relative_to(path, dir_path) == path[1] = dir_path

\* The configs the calls are made on: a new project; a source directory;
\* a target language added; a file marked translatable; and the source
\* directory set anew, to another directory, after the file was marked.
WithSource == set_src_dir_config(NewProject.config, "docs", "English")
WithTarget == add_lang_dir_config(WithSource, get_dir_suffix("French"), "French")
WithTranslatable == make_file_translatable(WithTarget, FileA)
WithSourceMoved == set_src_dir_config(WithTranslatable, "notes", "German")
SingleFileConfigs ==
    {NewProject.config, WithSource, WithTarget, WithTranslatable, WithSourceMoved}

\* The checks of translate_single_file in their order: what is raised
\* inside TranslateFileError, "None" when the translation starts.
single_file_checks(config, file_path, target_lang) ==
    IF file_path = MissingFile THEN "FileDoesNotExistError"
    ELSE IF get_source_language(config) = "None" THEN "NoSourceLanguageError"
    ELSE IF \A i \in 1..Len(config.lang_dirs) :
                get_target_languages(config)[i] # target_lang
    THEN "TargetLanguageNotInProjectError"
    ELSE IF file_path \notin get_translatable_files(config)
    THEN "UntranslatableFileError"
    ELSE IF ~is_relative_to(file_path, config.src_dir[1].path)
    THEN "FileDoesNotExistError: not in source root"
    ELSE "None"

\* translate_single_file(project, file_path_str, target_lang): the call up
\* to its rejection or to the start of the loop over the chunks of the
\* file (translate_file_to_file_async).
TranslateSingleFile(file_path, target_lang, kind, source) ==
    LET raised == single_file_checks(project.config, file_path, target_lang)
    IN  /\ pc = "idle"
        /\ file.status # "running"
        /\ last_op' = [op |-> "translate_single_file", file_path |-> file_path,
                       target_lang |-> target_lang, raised |-> raised]
        /\ IF raised # "None"
           THEN UNCHANGED file
           ELSE \/ /\ file.status = "none"
                   /\ file' = [status |-> "running", kind |-> kind, source |-> source,
                               cells |-> source, i |-> 1, log |-> << >>, run |-> 1,
                               calls |-> 0, completed |-> {}]
                \/ /\ file.status \in {"aborted", "written"}
                   /\ file.run < MaxRuns
                   /\ kind = file.kind
                   /\ source = file.source
                   /\ file' = [file EXCEPT !.status = "running", !.cells = source,
                                           !.i = 1, !.log = << >>, !.run = @ + 1,
                                           !.calls = 0]
        /\ UNCHANGED <<cache_vars, ops, lang_roles, cfg, call_model, pc, cur, result,
                       returned, target_file, fn, tasks, project>>

InitSingleFile ==
    /\ InitCache
    /\ cfg = NoCfg
    /\ call_model = "_dont_call_model"
    /\ pc = "idle"
    /\ cur = Idle
    /\ result = [status |-> "none"]
    /\ returned = {}
    /\ file = NoFile
    /\ target_file = NoTargetFile
    /\ fn = NoCall
    /\ tasks = NoTasks
    /\ \E config \in SingleFileConfigs :
          project = [NewProject EXCEPT !.config = config]

NextSingleFile ==
    \/ /\ pc = "idle"
       /\ file.status # "running"
       /\ \E file_path \in {FileA, FileB, MissingFile}, target_lang \in {"French", "German"},
             kind \in FileKinds :
             \E source \in ResumeSources(kind) :
                TranslateSingleFile(file_path, target_lang, kind, source)
    \/ FileTranslateChunk
    \/ \E raw \in FileReplies : FileModelReturns(raw)
    \/ \E error \in Errors : FileModelRaises(error)
    \/ FileBackoffElapsed
    \/ WriteTarget

SpecSingleFile == InitSingleFile /\ [][NextSingleFile]_vars

\* C39: translate_single_file rejects a file that is not marked
\* translatable, a file outside the source directory, or a target language
\* that is not in the project, before any model call, cache write or
\* target-file write: the call raises and leaves the cache, the target
\* file and the model's call count as they were, and starts no translation.
C39_RejectedBeforeAnyEffect ==
    [][ (/\ last_op'.op = "translate_single_file"
         /\ pc = "idle"
         /\ file.status # "running")
        => LET config == project.config
               file_path == last_op'.file_path
               not_translatable == file_path \notin config.translatable_files
               outside_source == \/ config.src_dir = << >>
                                 \/ config.src_dir[1].path # file_path[1]
               not_in_project == \A i \in 1..Len(config.lang_dirs) :
                                    config.lang_dirs[i].language # last_op'.target_lang
           IN  (not_translatable \/ outside_source \/ not_in_project)
               => /\ last_op'.raised # "None"
                  /\ UNCHANGED <<cache_vars, target_file, file, pc, cur, call_model,
                                 returned>> ]_vars

\* A file that is not marked translatable has been rejected after the
\* translatable file of the project was translated and written.
C39_Witness ==
    /\ last_op.op = "translate_single_file"
    /\ last_op.raised = "UntranslatableFileError"
    /\ file.status = "written"
    /\ target_file.exists
    /\ blobs # {}

\* A translatable file outside the source directory has been rejected.
C39_WitnessOutsideSource ==
    /\ last_op.op = "translate_single_file"
    /\ last_op.raised = "FileDoesNotExistError: not in source root"
    /\ last_op.file_path \in project.config.translatable_files
    /\ file.status = "none"

\* A target language that is not in the project has been rejected.
C39_WitnessLanguage ==
    /\ last_op.op = "translate_single_file"
    /\ last_op.raised = "TargetLanguageNotInProjectError"
    /\ last_op.target_lang = "German"
    /\ file.status = "written"

====
